---- MODULE Spec2Model ----
(***************************************************************************)
(* A model of the AutoRAG Notes MCP server: the tenant filter builders     *)
(* (utils/autorag.ts), the note tools (tools/note-tools.ts), the search    *)
(* tools (tools/search-tools.ts), the agent's tool registration (index.ts) *)
(* and the Google OAuth callback (google-handler.ts, utils.ts).            *)
(*                                                                         *)
(* Strings that the code builds, compares or searches (object keys, folder *)
(* bounds, filenames, titles) are sequences of character codes, so that    *)
(* concatenation, prefix, substring and lexical order are computed.        *)
(***************************************************************************)
EXTENDS Integers, Sequences, FiniteSets, TLC

VARIABLES
    probe,   \* the filter builders applied to one (user, object) pair
    store,   \* the R2 bucket env.NOTES: key -> object
    reqs,    \* the tool invocations in flight or answered, one per slot
    usedIds, \* the UUIDs crypto.randomUUID() has handed out
    returned,\* the (user, id) a create_note response has told its caller and
             \* no delete_note has been called with since
    now,     \* the wall clock, Date.now(), in milliseconds
    out,     \* the response this step sent, with its call's arguments, if any
    tools,   \* the names registered on the McpServer, and whether init() ran
    cb,      \* one execution of the GET /callback handler
    env      \* the bindings the sync tool reads: account, token, AutoRAG id

vars == <<probe, store, reqs, usedIds, returned, now, out, tools, cb, env>>

----------------------------------------------------------------------------
(* Strings as sequences of character codes (UTF-16 code units, all ASCII)  *)

Code(c) ==
    CASE c = " " -> 32  [] c = "!" -> 33  [] c = "\"" -> 34 [] c = "%" -> 37
      [] c = "-" -> 45  [] c = "." -> 46  [] c = "=" -> 61  [] c = "D" -> 68
      [] c = "x" -> 120 [] c = "{" -> 123 [] c = "}" -> 125
      [] c = "/" -> 47  [] c = "0" -> 48  [] c = "1" -> 49  [] c = "2" -> 50
      [] c = "3" -> 51  [] c = "4" -> 52  [] c = "5" -> 53  [] c = "6" -> 54
      [] c = "7" -> 55  [] c = "8" -> 56  [] c = "9" -> 57  [] c = ":" -> 58
      [] c = "?" -> 63  [] c = "@" -> 64
      [] c = "A" -> 65
      [] c = "B" -> 66  [] c = "C" -> 67  [] c = "E" -> 69  [] c = "I" -> 73
      [] c = "J" -> 74  [] c = "M" -> 77  [] c = "N" -> 78  [] c = "O" -> 79
      [] c = "S" -> 83  [] c = "T" -> 84  [] c = "U" -> 85
      [] c = "a" -> 97  [] c = "b" -> 98  [] c = "c" -> 99  [] c = "d" -> 100
      [] c = "e" -> 101 [] c = "f" -> 102 [] c = "g" -> 103 [] c = "h" -> 104
      [] c = "i" -> 105 [] c = "j" -> 106 [] c = "k" -> 107 [] c = "l" -> 108
      [] c = "m" -> 109 [] c = "n" -> 110 [] c = "o" -> 111 [] c = "p" -> 112
      [] c = "r" -> 114 [] c = "s" -> 115 [] c = "t" -> 116 [] c = "u" -> 117
      [] c = "w" -> 119 [] c = "y" -> 121 [] c = "z" -> 122 [] c = "~" -> 126
      [] c = "\n" -> 10

Str(cs) == [i \in 1..Len(cs) |-> Code(cs[i])]

Min(a, b) == IF a < b THEN a ELSE b

\* s.startsWith(p)
StartsWith(s, p) == Len(p) <= Len(s) /\ SubSeq(s, 1, Len(p)) = p

\* s.endsWith(p)
EndsWith(s, p) == Len(p) <= Len(s) /\ SubSeq(s, Len(s) - Len(p) + 1, Len(s)) = p

\* s.includes(p)
Includes(s, p) ==
    \E i \in 1..(Len(s) - Len(p) + 1) : SubSeq(s, i, i + Len(p) - 1) = p

\* a < b in the lexical (code unit) order the search service compares
\* string attributes by
LexLt(a, b) ==
    \E i \in 1..(Min(Len(a), Len(b)) + 1) :
        /\ \A j \in 1..(i - 1) : a[j] = b[j]
        /\ \/ i > Len(a) /\ i <= Len(b)
           \/ i <= Len(a) /\ i <= Len(b) /\ a[i] < b[i]

LexLe(a, b) == a = b \/ LexLt(a, b)

\* every sequence over alphabet A of length at most n
StringsUpTo(A, n) == UNION {[1..k -> A] : k \in 0..n}

\* an optional value: undefined, or a value x
None == << >>
Some(x) == << x >>

\* a text built from a template: literal text, and the values put into it
Literal(text) == [kind |-> "literal", text |-> text]
Value(chars) == [kind |-> "value", chars |-> chars]

----------------------------------------------------------------------------
(* Tenant filter builders (utils/autorag.ts)                               *)

SLASH == Str(<<"/">>)
SLASH_Z == Str(<<"/", "z">>)
MD_EXT == Str(<<".", "m", "d">>)
JSON_EXT == Str(<<".", "j", "s", "o", "n">>)
METADATA_DIR == Str(<<".", "m", "e", "t", "a", "d", "a", "t", "a", "/">>)
METADATA_SEGMENT == SLASH \o METADATA_DIR

\* a plausible slip: the lower bound without its trailing slash
Mut_createUserFolderFilter(user) ==
    [type |-> "and",
     filters |-> << [type |-> "gte", key |-> "folder", value |-> user],
                    [type |-> "lt", key |-> "folder", value |-> user \o SLASH_Z] >>]

createUserFolderFilter(user) ==
    [type |-> "and",
     filters |-> << [type |-> "gte", key |-> "folder", value |-> user \o SLASH],
                    [type |-> "lt", key |-> "folder", value |-> user \o SLASH_Z] >>]

\* `if (options.since_timestamp)`: undefined and 0 are both falsy
Truthy(n) == n # None /\ n[1] # 0

\* the timestamp clauses carry value.toString(); the service reads the
\* decimal string back as the same number, which is what is kept here
createAdvancedFilter(user, options) ==
    [type |-> "and",
     filters |->
        << [type |-> "gte", key |-> "folder", value |-> user \o SLASH],
           [type |-> "lt", key |-> "folder", value |-> user \o SLASH_Z] >>
        \o (IF Truthy(options.since_timestamp)
            THEN << [type |-> "gte", key |-> "timestamp",
                     value |-> options.since_timestamp[1]] >>
            ELSE << >>)
        \o (IF Truthy(options.until_timestamp)
            THEN << [type |-> "lte", key |-> "timestamp",
                     value |-> options.until_timestamp[1]] >>
            ELSE << >>)]

NoOptions == [since_timestamp |-> None, until_timestamp |-> None]

\* The search service's reading of one comparison clause against an indexed
\* object's attributes (folder: a string, timestamp: a number)
ClauseHolds(cl, attrs) ==
    IF cl.key = "folder"
    THEN CASE cl.type = "gte" -> LexLe(cl.value, attrs.folder)
           [] cl.type = "lt"  -> LexLt(attrs.folder, cl.value)
           [] cl.type = "lte" -> LexLe(attrs.folder, cl.value)
           [] OTHER -> FALSE
    ELSE CASE cl.type = "gte" -> attrs.timestamp >= cl.value
           [] cl.type = "lt"  -> attrs.timestamp < cl.value
           [] cl.type = "lte" -> attrs.timestamp <= cl.value
           [] OTHER -> FALSE

\* type "and": every clause holds
FilterMatches(filter, attrs) ==
    \A i \in 1..Len(filter.filters) : ClauseHolds(filter.filters[i], attrs)

\* the folder attribute of an indexed object: its key up to the last '/'
RECURSIVE FolderOf(_)
FolderOf(key) ==
    IF key = << >> \/ key[Len(key)] = Code("/")
    THEN key
    ELSE FolderOf(SubSeq(key, 1, Len(key) - 1))

----------------------------------------------------------------------------
(* Users, note identifiers and object keys                                 *)

\* props.email of the two signed-in users; the first is a proper prefix of
\* the second, the closest two distinct namespaces can be
USER_A == Str(<<"a", "@", "d">>)
USER_B == Str(<<"a", "@", "d", ".", "e">>)
Users == {USER_A, USER_B}

\* crypto.randomUUID() and the note_id zod admits (.uuid()): strings of hex
\* digits and '-'; an identifier here is one hex digit
MaxIds == 2
HexDigits == Str(<<"0", "1", "2", "3", "4", "5", "6", "7",
                   "8", "9", "a", "b", "c", "d", "e", "f">>)
IdOf(i) == << HexDigits[((i - 1) % 16) + 1] >>
            \o (IF i > 16 THEN << HexDigits[((i - 1) \div 16) + 1] >> ELSE << >>)
NoteIds == {IdOf(i) : i \in 1..MaxIds}

\* UserPaths.getNotePath: `${user}/${noteId}.md`
NotePath(user, noteId) == user \o SLASH \o noteId \o MD_EXT

\* a plausible slip: the sidecar directory is not put under the user
Mut_MetadataPath(user, noteId) == METADATA_DIR \o user \o SLASH \o noteId \o JSON_EXT


\* UserPaths.getMetadataPath: `${user}/.metadata/${noteId}.json`
MetadataPath(user, noteId) == user \o SLASH \o METADATA_DIR \o noteId \o JSON_EXT

\* UserPaths.getUserFolder: `${user}/`
UserFolder(user) == user \o SLASH

----------------------------------------------------------------------------
(* The filter builders applied to one object: specification SpecFilter     *)

MaxUserLen == 2
MaxTailLen == 2
ProbeUserAlphabet == {Code("."), Code("a"), Code("~")}
ProbeTailAlphabet == {Code("."), Code("/"), Code("a"), Code("z"), Code("~")}
\* user identifiers: non-empty, without '/'
ProbeUsers == StringsUpTo(ProbeUserAlphabet, MaxUserLen) \ {<< >>}
\* what follows `${owner}/` in a note's key and in its sidecar's key
NoteTails == {id \o MD_EXT : id \in NoteIds}
                \cup {METADATA_DIR \o id \o JSON_EXT : id \in NoteIds}
ProbeTails == StringsUpTo(ProbeTailAlphabet, MaxTailLen) \cup NoteTails

NoProbeResult == [fn |-> "none", path |-> FALSE, folder |-> FALSE]

\* the filter read against the object's key and against its folder attribute
ProbeResult(fn, filter, key) ==
    [fn |-> fn,
     path |-> FilterMatches(filter, [folder |-> key, timestamp |-> 0]),
     folder |-> FilterMatches(filter, [folder |-> FolderOf(key), timestamp |-> 0])]

ProbeKey == probe.owner \o SLASH \o probe.tail

ProbeInit ==
    probe \in [user : ProbeUsers, owner : ProbeUsers, tail : ProbeTails,
               out : {NoProbeResult}]

ApplyUserFolderFilter ==
    /\ probe.out.fn = "none"
    /\ probe' = [probe EXCEPT !.out =
            ProbeResult("createUserFolderFilter",
                        createUserFolderFilter(probe.user), ProbeKey)]
    /\ UNCHANGED <<store, reqs, usedIds, returned, now, out, tools, cb, env>>

ApplyAdvancedFilter ==
    /\ probe.out.fn = "none"
    /\ probe' = [probe EXCEPT !.out =
            ProbeResult("createAdvancedFilter",
                        createAdvancedFilter(probe.user, NoOptions), ProbeKey)]
    /\ UNCHANGED <<store, reqs, usedIds, returned, now, out, tools, cb, env>>

\* createAdvancedFilter on its own: a user, and each bound absent or a
\* timestamp from 0 to MaxStamp
MaxStamp == 2
Stamps == {None} \cup {Some(n) : n \in 0..MaxStamp}
FilterOptions == [since_timestamp : Stamps, until_timestamp : Stamps]

AdvancedProbeInit ==
    probe \in [user : ProbeUsers, options : FilterOptions, out : {None}]

CallCreateAdvancedFilter ==
    /\ probe.out = None
    /\ probe' = [probe EXCEPT !.out =
            Some(createAdvancedFilter(probe.user, probe.options))]
    /\ UNCHANGED <<store, reqs, usedIds, returned, now, out, tools, cb, env>>

----------------------------------------------------------------------------
(* Note metadata (utils/metadata.ts)                                       *)

\* \s of the regular expressions, over the characters used here
IsSpace(c) == c \in {Code(" "), Code("\n")}

Terminators == {Code("."), Code("!"), Code("?")}

RECURSIVE TrimStart(_)
TrimStart(s) ==
    IF s # << >> /\ IsSpace(Head(s)) THEN TrimStart(Tail(s)) ELSE s

RECURSIVE TrimEnd(_)
TrimEnd(s) ==
    IF s # << >> /\ IsSpace(s[Len(s)])
    THEN TrimEnd(SubSeq(s, 1, Len(s) - 1))
    ELSE s

\* s.trim()
Trim(s) == TrimEnd(TrimStart(s))

\* s.slice(0, n)
Slice(s, n) == SubSeq(s, 1, Min(n, Len(s)))

\* the length of the longest prefix of s that holds no character of stops
RECURSIVE PrefixLen(_, _)
PrefixLen(s, stops) ==
    IF s = << >> \/ Head(s) \in stops THEN 0 ELSE 1 + PrefixLen(Tail(s), stops)

\* text.split('\n')[0]
FirstLine(text) == SubSeq(text, 1, PrefixLen(text, {Code("\n")}))

\* text.match(/^[^.!?]+[.!?]?/)?.[0]: None when the text is empty or starts
\* with a terminator
FirstSentenceMatch(text) ==
    LET k == PrefixLen(text, Terminators)
    IN  IF k = 0 THEN None
        ELSE Some(SubSeq(text, 1, IF k < Len(text) THEN k + 1 ELSE k))

TITLE_BASE_MAX == 50

TypePrefix(noteType) ==
    CASE noteType = "meeting" ->
            Str(<<"M", "e", "e", "t", "i", "n", "g", " ", "N", "o", "t", "e", "s">>)
      [] noteType = "idea" -> Str(<<"I", "d", "e", "a">>)
      [] noteType = "task" -> Str(<<"T", "a", "s", "k">>)
      [] noteType = "diary" ->
            Str(<<"J", "o", "u", "r", "n", "a", "l", " ", "E", "n", "t", "r", "y">>)
      [] noteType = "code" ->
            Str(<<"C", "o", "d", "e", " ", "S", "n", "i", "p", "p", "e", "t">>)
      [] OTHER -> Str(<<"N", "o", "t", "e">>)

\* a plausible slip: the title base without the type prefix
Mut_generateTitle(text, noteType) ==
    Slice(Trim(FirstLine(text)), TITLE_BASE_MAX)

generateTitle(text, noteType) ==
    LET firstLine == Trim(FirstLine(text))
        m == FirstSentenceMatch(text)
        \* `match || firstLine`: an empty match cannot occur (the + needs one
        \* character)
        firstSentence == IF m # None THEN m[1] ELSE firstLine
        titleBase == Slice(firstSentence, TITLE_BASE_MAX)
    IN  TypePrefix(noteType) \o Str(<<":", " ">>) \o titleBase
            \o (IF Len(titleBase) >= TITLE_BASE_MAX
                THEN Str(<<".", ".", ".">>) ELSE << >>)

\* text.split(/\s+/).filter(word => word.length > 0).length: the number of
\* maximal runs of non-whitespace characters
WordCount(text) ==
    Cardinality({i \in 1..Len(text) :
                    /\ ~IsSpace(text[i])
                    /\ (i = 1 \/ IsSpace(text[i - 1]))})

\* c.toLowerCase() on ASCII
LowerChar(c) == IF c >= 65 /\ c <= 90 THEN c + 32 ELSE c
ToLowerCase(s) == [i \in 1..Len(s) |-> LowerChar(s[i])]

----------------------------------------------------------------------------
(* The object store env.NOTES and the note tools (tools/note-tools.ts)     *)

DayMs == 24 * 60 * 60 * 1000

\* the clock starts EpochDay days into the model's era and the model follows
\* it for MaxDay days
EpochDay == 5
MaxDay == 2

\* arguments of create_note: text, optional title, note_type
TEXT_BUY_MILK == Str(<<"B", "u", "y", " ", "m", "i", "l", "k">>)
TEXT_TEA == Str(<<"?", " ", "t", "e", "a", "\n", "n", "o", "w">>)
TITLE_MILK_RUN == Str(<<"M", "i", "l", "k", " ", "r", "u", "n">>)
NoteInputs ==
    { [text |-> TEXT_BUY_MILK, title |-> None, note_type |-> "task"],
      [text |-> TEXT_TEA, title |-> Some(TITLE_MILK_RUN), note_type |-> "other"] }

UNKNOWN == Str(<<"U", "n", "k", "n", "o", "w", "n">>)

\* NoteMetadata (created_at, the ISO rendering of created_timestamp, and the
\* constant version are carried by created_timestamp alone)
NoteMetadataOf(user, id, input, timestamp) ==
    [id |-> id,
     created_timestamp |-> timestamp,
     title |-> IF input.title # None /\ input.title[1] # << >>
               THEN input.title[1]
               ELSE generateTitle(input.text, input.note_type),
     note_type |-> input.note_type,
     author |-> user,
     char_count |-> Len(input.text),
     word_count |-> WordCount(input.text)]

\* String(n) of a non-negative integer: its decimal digits
RECURSIVE ToDecimal(_)
ToDecimal(n) ==
    IF n < 10 THEN << 48 + n >> ELSE Append(ToDecimal(n \div 10), 48 + (n % 10))

\* createCustomMetadata: every defined field, as a string (the context line
\* and created_at, renderings of the fields below, are left out)
createCustomMetadata(metadata) ==
    [id |-> metadata.id,
     created_timestamp |-> ToDecimal(metadata.created_timestamp),
     title |-> metadata.title,
     note_type |-> metadata.note_type,
     author |-> metadata.author,
     char_count |-> ToDecimal(metadata.char_count),
     word_count |-> ToDecimal(metadata.word_count)]

CONTENT_PREVIEW_MAX == 200

\* the primary object: the text, with the metadata as custom metadata
NoteObject(text, metadata) ==
    [kind |-> "text", body |-> Some(text),
     customMetadata |-> Some(createCustomMetadata(metadata)),
     uploaded |-> metadata.created_timestamp]

\* the sidecar object: JSON.stringify(sidecarData), no custom metadata; the
\* texts used hold no '#' and no URL, so tags and links are empty
SidecarObject(text, metadata) ==
    [kind |-> "json",
     body |-> Some([metadata |-> metadata,
                    content_preview |-> Slice(text, CONTENT_PREVIEW_MAX),
                    tags |-> {}, links |-> {}]),
     customMetadata |-> None,
     uploaded |-> metadata.created_timestamp]

\* R2Bucket.put / delete on the bucket's key -> object map
Put(bucket, key, object) == (key :> object) @@ bucket
Delete(bucket, key) == [k \in (DOMAIN bucket) \ {key} |-> bucket[k]]

\* one call on env.NOTES, as the request's call log keeps it
Call(op, key) == [op |-> op, key |-> key]

MaxReq == 2
Slots == 1..MaxReq
Idle == [pc |-> "idle"]
NoResponse == [op |-> "none", kind |-> "none"]

\* a new invocation takes the first free slot (the slots are interchangeable)
FreeSlot(s) == reqs[s].pc = "idle" /\ \A t \in DOMAIN reqs : t < s => reqs[t].pc # "idle"

NoteTools == {"create_note", "delete_note"}
SearchTools == {"search_notes_simple", "search_notes_advanced", "ai_search_notes"}
DebugTools == {}
ImageTools == {"generateImage"}
SyncTools == {"sync_autorag"}

\* registerNoteTools, registerSearchTools, registerDebugTools
registerNoteTools(names) == names \cup NoteTools
registerSearchTools(names) == names \cup SearchTools
registerDebugTools(names) == names \cup DebugTools
\* registerImageTools, registerSyncTools: defined by the repository
registerImageTools(names) == names \cup ImageTools
registerSyncTools(names) == names \cup SyncTools

\* MyMCP.init(): the three registrations it makes
MyMCPInitTools(names) ==
    registerDebugTools(registerSearchTools(registerNoteTools(names)))

\* MyMCP.init() runs once, before the agent serves any tool call
MCPInit ==
    /\ ~tools.inited
    /\ tools' = [inited |-> TRUE, names |-> MyMCPInitTools(tools.names)]
    /\ UNCHANGED <<probe, store, reqs, usedIds, returned, now, out, cb, env>>

\* the server dispatches a call only to a registered tool
Registered(name) == tools.inited /\ name \in tools.names

\* the day turns; a tool call lasts far less than a day, so none is in
\* flight across the turn
TickDay ==
    /\ \A s \in DOMAIN reqs : reqs[s].pc = "idle"
    /\ now < (EpochDay + MaxDay) * DayMs
    /\ now' = now + DayMs
    /\ out' = NoResponse
    /\ UNCHANGED <<probe, store, reqs, usedIds, returned, tools, cb, env>>

(* create_note *)

\* the handler up to its first await: the id, the timestamp and the metadata
\* are fixed and the primary put is issued
CreateNoteStart(s, user, input, id) ==
    /\ Registered("create_note")
    /\ FreeSlot(s)
    /\ id \in NoteIds \ usedIds
    /\ usedIds' = usedIds \cup {id}
    /\ reqs' = [reqs EXCEPT ![s] =
            [pc |-> "put_note", op |-> "create_note", user |-> user,
             input |-> input, id |-> id,
             metadata |-> NoteMetadataOf(user, id, input, now),
             calls |-> << Call("put", NotePath(user, id)) >>]]
    /\ out' = NoResponse
    /\ UNCHANGED <<probe, store, returned, now, tools, cb, env>>

\* an exception left the handler: the server answers with an error
CreateFault(r) ==
    [op |-> "create_note", kind |-> "fault", user |-> r.user, input |-> r.input,
     id |-> r.id, calls |-> r.calls]

CreateResult(r) ==
    [op |-> "create_note", kind |-> "result", user |-> r.user, input |-> r.input,
     id |-> r.id, metadata |-> r.metadata,
     storage |-> [note |-> NotePath(r.user, r.id),
                  sidecar |-> MetadataPath(r.user, r.id)],
     calls |-> r.calls]

\* a plausible slip: the put is not awaited, so its rejection is lost and
\* the handler goes on
Mut_AwaitNotePut(ok) == "continues"

\* `await env.NOTES.put(...)` of the note: the handler continues when the
\* put resolves and throws when it rejects
AwaitNotePut(ok) == IF ok THEN "continues" ELSE "throws"

\* the primary put settles: stored (ok), and the sidecar put is issued; or it
\* throws, and the exception leaves the handler
CreateNotePutNoteDone(s, ok) ==
    /\ reqs[s].pc = "put_note"
    /\ LET r == reqs[s] IN
       IF AwaitNotePut(ok) = "continues"
       THEN /\ store' = IF ok
                        THEN Put(store, NotePath(r.user, r.id),
                                 NoteObject(r.input.text, r.metadata))
                        ELSE store
            /\ reqs' = [reqs EXCEPT ![s] =
                  [r EXCEPT !.pc = "put_sidecar",
                            !.calls = Append(r.calls,
                                  Call("put", MetadataPath(r.user, r.id)))]]
            /\ out' = NoResponse
       ELSE /\ out' = CreateFault(r)
            /\ reqs' = [reqs EXCEPT ![s] = Idle]
            /\ UNCHANGED store
    /\ UNCHANGED <<probe, usedIds, returned, now, tools, cb, env>>

\* the sidecar put settles: stored (ok), and the handler returns the id, the
\* metadata and the two paths; or it throws
CreateNotePutSidecarDone(s, ok) ==
    /\ reqs[s].pc = "put_sidecar"
    /\ LET r == reqs[s] IN
       IF ok
       THEN /\ store' = Put(store, MetadataPath(r.user, r.id),
                            SidecarObject(r.input.text, r.metadata))
            /\ out' = CreateResult(r)
            /\ returned' = returned \cup {<<r.user, r.id>>}
       ELSE /\ out' = CreateFault(r)
            /\ UNCHANGED <<store, returned, env>>
    /\ reqs' = [reqs EXCEPT ![s] = Idle]
    /\ UNCHANGED <<probe, usedIds, now, tools, cb, env>>

(* delete_note *)

\* the handler up to its first await: the two paths are built and the head
\* of the primary is issued.  afterCreate: this is the first delete_note of
\* an id that a create_note response has told this user
DeleteNoteStart(s, user, note_id) ==
    /\ Registered("delete_note")
    /\ FreeSlot(s)
    /\ reqs' = [reqs EXCEPT ![s] =
            [pc |-> "head", op |-> "delete_note", user |-> user,
             note_id |-> note_id,
             afterCreate |-> <<user, note_id>> \in returned,
             noteExists |-> "pending", threw |-> {},
             noteTitle |-> UNKNOWN, pending |-> {}, responded |-> FALSE,
             calls |-> << Call("head", NotePath(user, note_id)) >>]]
    /\ returned' = returned \ {<<user, note_id>>}
    /\ out' = NoResponse
    /\ UNCHANGED <<probe, store, usedIds, now, tools, cb, env>>

DeleteResponse(r, success, error) ==
    [op |-> "delete_note", kind |-> "result", user |-> r.user,
     note_id |-> r.note_id, afterCreate |-> r.afterCreate,
     noteExists |-> r.noteExists, threw |-> r.threw,
     success |-> success, error |-> error,
     noteTitle |-> r.noteTitle,
     files_deleted |-> IF success
                       THEN << NotePath(r.user, r.note_id),
                               MetadataPath(r.user, r.note_id) >>
                       ELSE << >>,
     calls |-> r.calls]

\* a plausible slip: the existence check is left out
Mut_NoteExists(bucket, notePath) == TRUE

\* a plausible slip: any object of the user's folder passes for the note
Mut_NoteExistsAnyObject(bucket, notePath) ==
    \E key \in DOMAIN bucket : StartsWith(key, FolderOf(notePath))

\* `await env.NOTES.head(notePath)` read as `if (!noteExists)`: an object
\* when the key is stored, null when it is not
NoteExists(bucket, notePath) == notePath \in DOMAIN bucket

\* the head settles: it throws (outer catch: "Deletion failed"), finds no
\* object ("Note not found"), or finds one and the sidecar get is issued
DeleteNoteHeadDone(s, ok) ==
    /\ reqs[s].pc = "head"
    /\ LET r == reqs[s]
           notePath == NotePath(r.user, r.note_id)
           metadataPath == MetadataPath(r.user, r.note_id)
       IN
       IF ~ok
       THEN /\ out' = DeleteResponse(
                        [r EXCEPT !.noteExists = "threw", !.threw = {"head"}],
                        FALSE, "Deletion failed")
            /\ reqs' = [reqs EXCEPT ![s] = Idle]
       ELSE IF ~NoteExists(store, notePath)
       THEN /\ out' = DeleteResponse([r EXCEPT !.noteExists = "null"],
                                     FALSE, "Note not found")
            /\ reqs' = [reqs EXCEPT ![s] = Idle]
       ELSE /\ reqs' = [reqs EXCEPT ![s] =
                  [r EXCEPT !.pc = "get", !.noteExists = "object",
                            !.calls = Append(r.calls, Call("get", metadataPath))]]
            /\ out' = NoResponse
    /\ UNCHANGED <<probe, store, usedIds, returned, now, tools, cb, env>>

\* metadata.json() of a stored object: None when its body is not JSON
ParseJson(object) == IF object.kind = "json" THEN object.body ELSE None

\* `metadataJson.title || "Unknown"`
TitleOrUnknown(data) ==
    IF data.metadata.title # << >> THEN data.metadata.title ELSE UNKNOWN

\* a plausible slip: the title is left empty when the sidecar gives none
Mut_SidecarTitle(ok, bucket, metadataPath) ==
    IF ok /\ metadataPath \in DOMAIN bucket /\ bucket[metadataPath].kind = "json"
    THEN bucket[metadataPath].body[1].metadata.title
    ELSE << >>

\* the title the handler reads from what the sidecar get gave it: "Unknown"
\* when the get threw, found nothing, or the body does not parse (inner
\* catch)
SidecarTitle(ok, bucket, metadataPath) ==
    IF ~ok \/ metadataPath \notin DOMAIN bucket
    THEN UNKNOWN
    ELSE LET parsed == ParseJson(bucket[metadataPath])
         IN  IF parsed = None THEN UNKNOWN ELSE TitleOrUnknown(parsed[1])

\* a plausible slip: only the note is deleted
Mut_DeleteTargets(notePath, metadataPath) == {notePath}

\* deletePromises: env.NOTES.delete(notePath), env.NOTES.delete(metadataPath)
DeleteTargets(notePath, metadataPath) == {notePath, metadataPath}

\* a plausible slip: the note's delete is pushed a second time
Mut_DeleteCalls(notePath, metadataPath) ==
    << Call("delete", notePath), Call("delete", metadataPath),
       Call("delete", notePath) >>

\* the calls of deletePromises, in the order they are issued
DeleteCalls(notePath, metadataPath) ==
    << Call("delete", notePath), Call("delete", metadataPath) >>

\* the sidecar get settles, whichever way; then both deletes are issued
\* together (Promise.all over the two delete promises)
DeleteNoteGetDone(s, ok) ==
    /\ reqs[s].pc = "get"
    /\ LET r == reqs[s]
           notePath == NotePath(r.user, r.note_id)
           metadataPath == MetadataPath(r.user, r.note_id)
       IN
       reqs' = [reqs EXCEPT ![s] =
            [r EXCEPT !.pc = "deleting",
                      !.threw = IF ok THEN r.threw ELSE r.threw \cup {"get"},
                      !.noteTitle = SidecarTitle(ok, store, metadataPath),
                      !.pending = DeleteTargets(notePath, metadataPath),
                      !.calls = r.calls \o DeleteCalls(notePath, metadataPath)]]
    /\ out' = NoResponse
    /\ UNCHANGED <<probe, store, usedIds, returned, now, tools, cb, env>>

\* the deletes request s has issued and not seen settle
PendingDeletes(s) == IF reqs[s].pc = "deleting" THEN reqs[s].pending ELSE {}

\* a plausible slip: Promise.allSettled, which resolves when every promise
\* has settled, whichever way
Mut_PromiseAll(rejected, ok, left) ==
    IF left = {} THEN "resolves" ELSE "pending"

\* what `await Promise.all(deletePromises)` does when one more promise
\* settles (ok: it resolved) and `left` are still pending: it rejects on the
\* first rejection, resolves when all have resolved, and does nothing once
\* it has rejected
PromiseAll(rejected, ok, left) ==
    IF rejected THEN "pending"
    ELSE IF ~ok THEN "rejects"
    ELSE IF left = {} THEN "resolves"
    ELSE "pending"

\* one of the two deletes settles, in either order.  Promise.all rejects on
\* the first failure (outer catch: "Deletion failed") while the other delete,
\* already issued, still settles; it resolves when both have succeeded
DeleteNoteDeleteDone(s, key, ok) ==
    /\ key \in PendingDeletes(s)
    /\ LET r0 == reqs[s]
           r == [r0 EXCEPT !.threw = IF ok THEN r0.threw
                                     ELSE r0.threw \cup {"delete"}]
           left == r.pending \ {key}
       IN
       /\ store' = IF ok THEN Delete(store, key) ELSE store
       /\ out' = CASE PromiseAll(r.responded, ok, left) = "rejects" ->
                            DeleteResponse(r, FALSE, "Deletion failed")
                   [] PromiseAll(r.responded, ok, left) = "resolves" ->
                            DeleteResponse(r, TRUE, "")
                   [] OTHER -> NoResponse
       /\ reqs' = [reqs EXCEPT ![s] =
             IF left = {} THEN Idle
             ELSE [r EXCEPT !.pending = left,
                            !.responded = r.responded \/ ~ok]]
    /\ UNCHANGED <<probe, usedIds, returned, now, tools, cb, env>>

----------------------------------------------------------------------------
(* The managed search service and the search tools                         *)
(* (utils/autorag.ts, tools/search-tools.ts)                               *)

MaxResults == 2
MAX_NUM_RESULTS == 50
DEFAULT_LIMIT == 10
LIST_LIMIT == 1000

QUERY_BUY == Str(<<"b", "u", "y">>)

\* what the service has indexed of a stored object: its key as filename, and
\* the attributes the filter clauses read
IndexedResult(key) ==
    [filename |-> Some(key),
     attributes |-> [folder |-> FolderOf(key), timestamp |-> store[key].uploaded],
     metadata |-> None,
     enriched_metadata |-> None]

\* AutoRAGSearchResult.filename is optional: a result without one, filed
\* under the user's folder at the time of the call
NamelessResult(user) ==
    [filename |-> None,
     attributes |-> [folder |-> UserFolder(user), timestamp |-> now],
     metadata |-> None,
     enriched_metadata |-> None]

\* the sequences of distinct elements of S, of length at most n
RECURSIVE Rankings(_, _)
Rankings(S, n) ==
    IF n = 0 THEN {<< >>}
    ELSE {<< >>} \cup UNION {{<< x >> \o t : t \in Rankings(S \ {x}, n - 1)} : x \in S}

\* AI.autorag("notes").search(params): the call throws, answers something
\* that is no object, or answers an object whose data, when present, ranks
\* at most max_num_results indexed objects that satisfy params.filters
ServiceAnswers(user, params) ==
    LET matching == {r \in {IndexedResult(k) : k \in DOMAIN store}
                              \cup {NamelessResult(user)} :
                        FilterMatches(params.filters, r.attributes)}
    IN  {[kind |-> "throw"], [kind |-> "nonobject"],
         [kind |-> "object", data |-> None]}
        \cup {[kind |-> "object", data |-> Some(d)] :
                d \in Rankings(matching, Min(params.max_num_results, MaxResults))}

\* the message of what the service throws when its call fails
SERVICE_ERROR == "AutoRAG is unavailable"

\* a plausible slip: an answer that is no object is read as an empty one
Mut_performAutoRAGSearch(answer, params) ==
    IF answer.kind = "throw"
    THEN [threw |-> TRUE, message |-> SERVICE_ERROR]
    ELSE [threw |-> FALSE,
          search_query |-> params.query,
          data |-> IF answer.kind = "object" /\ answer.data # None
                   THEN answer.data[1] ELSE << >>]

\* performAutoRAGSearch: throws when the call throws or the answer is no
\* object ("Invalid AutoRAG response format"); else the answer with
\* `response.data || []` (the service echoes the query as search_query)
performAutoRAGSearch(answer, params) ==
    IF answer.kind # "object"
    THEN [threw |-> TRUE,
          message |-> IF answer.kind = "nonobject"
                      THEN "Invalid AutoRAG response format"
                      ELSE SERVICE_ERROR]
    ELSE [threw |-> FALSE,
          search_query |-> params.query,
          data |-> IF answer.data = None THEN << >> ELSE answer.data[1]]

\* a plausible slip: only results without a filename are dropped
Mut_filterNoteResults(results) ==
    SelectSeq(results, LAMBDA r : r.filename # None /\ r.filename[1] # << >>)

\* filterNoteResults: the results that have a filename without '/.metadata/'
filterNoteResults(results) ==
    SelectSeq(results, LAMBDA r :
        /\ r.filename # None
        /\ r.filename[1] # << >>
        /\ ~Includes(r.filename[1], METADATA_SEGMENT))

\* Math.min(limit || DEFAULT_LIMIT, 50)
MaxNumResults(limit) ==
    Min(IF limit # 0 THEN limit ELSE DEFAULT_LIMIT, MAX_NUM_RESULTS)

SimpleParams(user, query, limit) ==
    [query |-> query, max_num_results |-> MaxNumResults(limit),
     filters |-> createUserFolderFilter(user)]

\* the response of search_notes_simple to the service's answer
SimpleResponse(user, query, limit, answer) ==
    LET params == SimpleParams(user, query, limit)
        response == performAutoRAGSearch(answer, params)
    IN  IF response.threw
        THEN [op |-> "search_notes_simple", kind |-> "search_error",
              user |-> user, query |-> query, limit |-> limit,
              answer |-> answer, calls |-> << >>,
              text |-> << Literal("Search error: "), Literal(response.message) >>]
        ELSE LET noteResults == filterNoteResults(response.data) IN
             [op |-> "search_notes_simple", kind |-> "result",
              user |-> user, query |-> query, limit |-> limit,
              answer |-> answer, calls |-> << >>,
              user_folder |-> UserFolder(user),
              search_query |-> response.search_query,
              total_results |-> Len(response.data),
              filtered_results |-> Len(noteResults),
              results |-> noteResults,
              applied_filter |-> createUserFolderFilter(user)]

\* search_notes_simple is called: the handler builds the filter and awaits
\* the search call
SearchNotesSimpleStart(s, user, query, limit) ==
    /\ Registered("search_notes_simple")
    /\ FreeSlot(s)
    /\ reqs' = [reqs EXCEPT ![s] =
            [pc |-> "search", op |-> "search_notes_simple", user |-> user,
             query |-> query, limit |-> limit, searches |-> 1]]
    /\ out' = NoResponse
    /\ UNCHANGED <<probe, store, usedIds, returned, now, tools, cb, env>>

\* the search call settles; the handler makes no object-store call
SearchNotesSimpleDone(s) ==
    /\ reqs[s].pc = "search"
    /\ reqs[s].op = "search_notes_simple"
    /\ LET r == reqs[s] IN
       \E answer \in ServiceAnswers(r.user, SimpleParams(r.user, r.query, r.limit)) :
          out' = SimpleResponse(r.user, r.query, r.limit, answer)
    /\ reqs' = [reqs EXCEPT ![s] = Idle]
    /\ UNCHANGED <<probe, store, usedIds, returned, now, tools, cb, env>>

\* `since_days ? now - (since_days * 24 * 60 * 60 * 1000) : undefined`
DaysAgo(days, clock) ==
    IF days # None /\ days[1] # 0 THEN Some(clock - days[1] * DayMs) ELSE None

AdvancedParams(user, query, limit, since_days, until_days, clock) ==
    [query |-> query, max_num_results |-> MaxNumResults(limit),
     filters |-> createAdvancedFilter(user,
                    [since_timestamp |-> DaysAgo(since_days, clock),
                     until_timestamp |-> DaysAgo(until_days, clock)])]

\* filename.match(/\/([^/]+)\.md$/)?.[1]: what stands between the last '/'
\* and a closing ".md", when there is a '/' and something stands there
NoteIdOf(filename) ==
    IF filename = None THEN None
    ELSE LET name == filename[1]
             folder == FolderOf(name)
             last == SubSeq(name, Len(folder) + 1, Len(name))
         IN  IF folder # << >> /\ EndsWith(last, MD_EXT) /\ Len(last) > Len(MD_EXT)
             THEN Some(SubSeq(last, 1, Len(last) - Len(MD_EXT)))
             ELSE None

\* the sidecar key enrichResultsWithMetadata gets for one result, if any
SidecarKeyOf(result, user) ==
    LET noteId == NoteIdOf(result.filename)
    IN  IF noteId = None THEN None ELSE Some(MetadataPath(user, noteId[1]))

\* enrichResultsWithMetadata, one result: the result with sidecarMetadata
\* when its sidecar is got and parses; the result as it is when there is no
\* note id, the get throws (threw holds its key), finds nothing, or the body
\* does not parse
EnrichResult(result, user, bucket, threw) ==
    LET key == SidecarKeyOf(result, user)
        base == [filename |-> result.filename, attributes |-> result.attributes,
                 metadata |-> result.metadata,
                 enriched_metadata |-> result.enriched_metadata,
                 sidecarMetadata |-> None]
    IN  IF key = None \/ key[1] \in threw \/ key[1] \notin DOMAIN bucket
        THEN base
        ELSE [base EXCEPT !.sidecarMetadata = ParseJson(bucket[key[1]])]

enrichResultsWithMetadata(results, user, bucket, threw) ==
    [i \in 1..Len(results) |-> EnrichResult(results[i], user, bucket, threw)]

\* the sidecar keys enrichResultsWithMetadata gets for these results
SidecarKeysOf(results, user) ==
    {SidecarKeyOf(results[i], user)[1] :
        i \in {j \in 1..Len(results) : SidecarKeyOf(results[j], user) # None}}

\* the gets enrichResultsWithMetadata issues, in the order of the results
RECURSIVE EnrichCalls(_, _)
EnrichCalls(results, user) ==
    IF results = << >> THEN << >>
    ELSE LET key == SidecarKeyOf(Head(results), user)
         IN  (IF key = None THEN << >> ELSE << Call("get", key[1]) >>)
                \o EnrichCalls(Tail(results), user)

\* what the handler keeps of an enriched result for its response; the
\* results carry no content here, so the preview is the default text
AdvancedResultEntry(result) ==
    [filename |-> result.filename,
     metadata |-> result.metadata,
     enriched_metadata |-> result.enriched_metadata,
     content_preview |-> "No content available"]

\* the keys of S in lexical order, as R2 lists them
RECURSIVE SortedKeys(_)
SortedKeys(S) ==
    IF S = {} THEN << >>
    ELSE LET first == CHOOSE k \in S : \A other \in S : LexLe(k, other)
         IN  << first >> \o SortedKeys(S \ {first})

\* env.NOTES.list({prefix, limit}): the first `limit` keys under the prefix
ListKeys(bucket, prefix, limit) ==
    LET keys == SortedKeys({k \in DOMAIN bucket : StartsWith(k, prefix)})
    IN  SubSeq(keys, 1, Min(limit, Len(keys)))

\* `object.customMetadata || {}` of a listed object, then `.title`; the
\* listing carries custom metadata only when the bucket's list includes it
ListedTitle(bucket, key, withMetadata) ==
    IF withMetadata /\ bucket[key].customMetadata # None
    THEN Some(bucket[key].customMetadata[1].title)
    ELSE None

\* a plausible slip: the match keeps the case
Mut_MatchesQuery(title, query) ==
    title # None /\ Includes(title[1], query)

\* `metadata.title?.toLowerCase().includes(query.toLowerCase())`
MatchesQuery(title, query) ==
    title # None /\ Includes(ToLowerCase(title[1]), ToLowerCase(query))

\* the response of search_notes_advanced, given the service's answer and how
\* the object-store calls end
AdvancedResponse(user, query, limit, since_days, until_days, calledAt, answer, threw, listOk, withMetadata) ==
    LET params == AdvancedParams(user, query, limit, since_days, until_days, calledAt)
        response == performAutoRAGSearch(answer, params)
        common == [op |-> "search_notes_advanced",
                   user |-> user, query |-> query, limit |-> limit,
                   since_days |-> since_days, until_days |-> until_days,
                   calledAt |-> calledAt, answer |-> answer]
    IN  IF ~response.threw
        THEN LET noteResults == filterNoteResults(response.data)
                 enrichedResults ==
                    enrichResultsWithMetadata(noteResults, user, store, threw)
             IN  common @@
                 [kind |-> "result", fallback |-> FALSE,
                  calls |-> EnrichCalls(noteResults, user), listed |-> << >>,
                  user_folder |-> UserFolder(user),
                  search_query |-> response.search_query,
                  total_results |-> Len(enrichedResults),
                  enriched |-> enrichedResults, threw |-> threw,
                  results |-> [i \in 1..Len(enrichedResults) |->
                                  AdvancedResultEntry(enrichedResults[i])]]
        ELSE \* catch: fall back to listing the user's folder
             LET prefix == UserFolder(user) IN
             IF ~listOk
             THEN common @@
                  [kind |-> "fault", fallback |-> TRUE,
                   calls |-> << Call("list", prefix) >>, listed |-> << >>]
             ELSE LET listed == ListKeys(store, prefix, LIST_LIMIT)
                      matches == SelectSeq(listed, LAMBDA k :
                            MatchesQuery(ListedTitle(store, k, withMetadata), query))
                      results == [i \in 1..Len(matches) |->
                            [key |-> matches[i],
                             metadata |-> IF withMetadata
                                          THEN store[matches[i]].customMetadata
                                          ELSE None,
                             uploaded |-> store[matches[i]].uploaded]]
                  IN  common @@
                      [kind |-> "result", fallback |-> TRUE,
                       calls |-> << Call("list", prefix) >>, listed |-> listed,
                       withMetadata |-> withMetadata,
                       results |-> Slice(results,
                                         IF limit # 0 THEN limit ELSE DEFAULT_LIMIT),
                       total |-> Len(results),
                       filters_applied |-> [since_days |-> since_days,
                                            until_days |-> until_days]]

\* search_notes_advanced is called: the handler takes the time, builds the
\* filter and awaits the search call
SearchNotesAdvancedStart(s, user, query, limit, since_days, until_days) ==
    /\ Registered("search_notes_advanced")
    /\ FreeSlot(s)
    /\ reqs' = [reqs EXCEPT ![s] =
            [pc |-> "search", op |-> "search_notes_advanced", user |-> user,
             query |-> query, limit |-> limit, since_days |-> since_days,
             until_days |-> until_days, calledAt |-> now, searches |-> 1]]
    /\ out' = NoResponse
    /\ UNCHANGED <<probe, store, usedIds, returned, now, tools, cb, env>>

\* the search call settles, then the sidecar gets or, when the search
\* failed, the listing; all of them read only, so the rest of the handler
\* is one step
SearchNotesAdvancedDone(s, Outcomes) ==
    /\ reqs[s].pc = "search"
    /\ reqs[s].op = "search_notes_advanced"
    /\ LET r == reqs[s]
           params == AdvancedParams(r.user, r.query, r.limit, r.since_days,
                                    r.until_days, r.calledAt)
       IN  \E answer \in ServiceAnswers(r.user, params) :
             LET response == performAutoRAGSearch(answer, params) IN
             IF response.threw
             THEN \E listOk \in Outcomes :
                  \E withMetadata \in (IF listOk THEN BOOLEAN ELSE {FALSE}) :
                     out' = AdvancedResponse(r.user, r.query, r.limit, r.since_days,
                                r.until_days, r.calledAt, answer, {}, listOk,
                                withMetadata)
             ELSE \E threw \in (IF FALSE \in Outcomes
                                THEN SUBSET SidecarKeysOf(
                                        filterNoteResults(response.data), r.user)
                                ELSE {{}}) :
                     out' = AdvancedResponse(r.user, r.query, r.limit, r.since_days,
                                r.until_days, r.calledAt, answer, threw, TRUE, TRUE)
    /\ reqs' = [reqs EXCEPT ![s] = Idle]
    /\ UNCHANGED <<probe, store, usedIds, returned, now, tools, cb, env>>

----------------------------------------------------------------------------
(* ai_search_notes (tools/search-tools.ts, utils/autorag.ts)               *)

AI_DEFAULT_LIMIT == 5
ANSWER_TEXT == "You planned to buy milk."

\* AI.autorag("notes").aiSearch(params): the call throws, answers something
\* that is no object, or answers an object with or without a response text
AiServiceAnswers ==
    {[kind |-> "throw"], [kind |-> "nonobject"],
     [kind |-> "object", response |-> None],
     [kind |-> "object", response |-> Some(ANSWER_TEXT)]}

\* performAutoRAGAISearch: throws when the call throws or the answer is no
\* object; else the answer with `response.response || "No relevant
\* information found."`
performAutoRAGAISearch(answer, params) ==
    IF answer.kind # "object"
    THEN [threw |-> TRUE,
          message |-> IF answer.kind = "nonobject"
                      THEN "Invalid AutoRAG AI response format"
                      ELSE SERVICE_ERROR]
    ELSE [threw |-> FALSE,
          search_query |-> params.query,
          response |-> IF answer.response = None
                       THEN "No relevant information found."
                       ELSE answer.response[1]]

\* `Math.min(limit || 5, 50)`, and the filter of search_notes_advanced
AiParams(user, query, limit, since_days, until_days, clock) ==
    [query |-> query,
     max_num_results |-> Min(IF limit # 0 THEN limit ELSE AI_DEFAULT_LIMIT,
                             MAX_NUM_RESULTS),
     filters |-> createAdvancedFilter(user,
                    [since_timestamp |-> DaysAgo(since_days, clock),
                     until_timestamp |-> DaysAgo(until_days, clock)])]

\* filterInfo.join(', ') after "filtered by"
FilterInfo(since_days, until_days) ==
    (IF since_days # None /\ since_days[1] # 0
     THEN << Literal("from the last "), Value(ToDecimal(since_days[1])),
             Literal(" days") >>
     ELSE << >>)
    \o (IF since_days # None /\ since_days[1] # 0
           /\ until_days # None /\ until_days[1] # 0
        THEN << Literal(", ") >> ELSE << >>)
    \o (IF until_days # None /\ until_days[1] # 0
        THEN << Literal("older than "), Value(ToDecimal(until_days[1])),
                Literal(" days") >>
        ELSE << >>)

\* the response of ai_search_notes to the service's answer
AiResponse(user, query, limit, since_days, until_days, calledAt, answer) ==
    LET params == AiParams(user, query, limit, since_days, until_days, calledAt)
        response == performAutoRAGAISearch(answer, params)
        common == [op |-> "ai_search_notes", user |-> user, query |-> query,
                   limit |-> limit, since_days |-> since_days,
                   until_days |-> until_days, calledAt |-> calledAt,
                   answer |-> answer, calls |-> << >>]
        info == FilterInfo(since_days, until_days)
    IN  IF response.threw
        THEN common @@
             [kind |-> "search_error",
              text |-> << Literal("Search error: "), Literal(response.message),
                          Literal("\n\nNote: AutoRAG may need time to index newly created documents. Try again in a few minutes.") >>]
        ELSE common @@
             [kind |-> "result",
              text |-> << Literal(response.response) >>
                        \o (IF info # << >>
                            THEN << Literal("\n\n*Note: This answer is based on notes filtered by ") >>
                                    \o info \o << Literal(".*") >>
                            ELSE << >>)]

\* ai_search_notes is called: the handler takes the time, builds the filter
\* and awaits the AI search call
AiSearchNotesStart(s, user, query, limit, since_days, until_days) ==
    /\ Registered("ai_search_notes")
    /\ FreeSlot(s)
    /\ reqs' = [reqs EXCEPT ![s] =
            [pc |-> "search", op |-> "ai_search_notes", user |-> user,
             query |-> query, limit |-> limit, since_days |-> since_days,
             until_days |-> until_days, calledAt |-> now, searches |-> 1]]
    /\ out' = NoResponse
    /\ UNCHANGED <<probe, store, usedIds, returned, now, tools, cb, env>>

\* the AI search call settles; the handler makes no object-store call
AiSearchNotesDone(s) ==
    /\ reqs[s].pc = "search"
    /\ reqs[s].op = "ai_search_notes"
    /\ LET r == reqs[s] IN
       \E answer \in AiServiceAnswers :
          out' = AiResponse(r.user, r.query, r.limit, r.since_days, r.until_days,
                            r.calledAt, answer)
    /\ reqs' = [reqs EXCEPT ![s] = Idle]
    /\ UNCHANGED <<probe, store, usedIds, returned, now, tools, cb, env>>

----------------------------------------------------------------------------
(* The OAuth callback (google-handler.ts, utils.ts): specification SpecAuth *)

\* `!s` of an optional string: undefined and "" are both falsy
TruthyString(s) == s # None /\ s[1] # << >>

IsHex(c) == c \in (48..57) \cup (65..70) \cup (97..102)
HexValue(c) == IF c <= 57 THEN c - 48 ELSE IF c <= 70 THEN c - 55 ELSE c - 87

\* decodeURIComponent(s): %XX becomes the character XX stands for; None when
\* it throws URIError (a '%' without two hex digits; of the escapes, the
\* ASCII ones alone are read here)
RECURSIVE decodeURIComponent(_)
decodeURIComponent(s) ==
    IF s = << >> THEN Some(<< >>)
    ELSE IF Head(s) = Code("%")
    THEN IF Len(s) >= 3 /\ IsHex(s[2]) /\ IsHex(s[3])
                /\ HexValue(s[2]) * 16 + HexValue(s[3]) < 128
         THEN LET rest == decodeURIComponent(SubSeq(s, 4, Len(s)))
              IN  IF rest = None THEN None
                  ELSE Some(<< HexValue(s[2]) * 16 + HexValue(s[3]) >> \o rest[1])
         ELSE None
    ELSE LET rest == decodeURIComponent(Tail(s))
         IN  IF rest = None THEN None ELSE Some(<< Head(s) >> \o rest[1])

\* the base64 alphabet: A-Z, a-z, 0-9, '+', '/'
IsBase64(c) == c \in (65..90) \cup (97..122) \cup (48..57) \cup {43, 47}
Base64Value(c) ==
    IF c \in 65..90 THEN c - 65
    ELSE IF c \in 97..122 THEN c - 71
    ELSE IF c \in 48..57 THEN c + 4
    ELSE IF c = 43 THEN 62 ELSE 63
Base64Char(v) ==
    IF v < 26 THEN v + 65
    ELSE IF v < 52 THEN v + 71
    ELSE IF v < 62 THEN v - 4
    ELSE IF v = 62 THEN 43 ELSE 47

\* the bytes of base64 digits, four digits to three bytes; the bits left
\* over at the end are dropped
RECURSIVE Base64Bytes(_)
Base64Bytes(s) ==
    IF Len(s) >= 4
    THEN LET v == ((Base64Value(s[1]) * 64 + Base64Value(s[2])) * 64
                        + Base64Value(s[3])) * 64 + Base64Value(s[4])
         IN  << v \div 65536, (v \div 256) % 256, v % 256 >>
                \o Base64Bytes(SubSeq(s, 5, Len(s)))
    ELSE IF Len(s) = 3
    THEN LET v == (Base64Value(s[1]) * 64 + Base64Value(s[2])) * 64
                        + Base64Value(s[3])
         IN  << v \div 1024, (v \div 4) % 256 >>
    ELSE IF Len(s) = 2
    THEN << (Base64Value(s[1]) * 64 + Base64Value(s[2])) \div 16 >>
    ELSE << >>

\* atob(s), the forgiving base64 decoding: white space is dropped, then the
\* padding of a string whose length is a multiple of four; None when it
\* throws (a length of 1 modulo 4, a character outside the alphabet)
atob(s) ==
    LET t == SelectSeq(s, LAMBDA c : c \notin {9, 10, 12, 13, 32})
        n == Len(t)
        u == IF n > 0 /\ n % 4 = 0 /\ t[n] = Code("=")
             THEN IF t[n - 1] = Code("=") THEN SubSeq(t, 1, n - 2)
                  ELSE SubSeq(t, 1, n - 1)
             ELSE t
    IN  IF Len(u) % 4 = 1 \/ \E i \in 1..Len(u) : ~IsBase64(u[i])
        THEN None
        ELSE Some(Base64Bytes(u))

\* btoa(s): three bytes to four digits, padded with '='
RECURSIVE btoa(_)
btoa(s) ==
    IF s = << >> THEN << >>
    ELSE IF Len(s) = 1
    THEN << Base64Char(s[1] \div 4), Base64Char((s[1] % 4) * 16),
            Code("="), Code("=") >>
    ELSE IF Len(s) = 2
    THEN << Base64Char(s[1] \div 4),
            Base64Char((s[1] % 4) * 16 + s[2] \div 16),
            Base64Char((s[2] % 16) * 4), Code("=") >>
    ELSE << Base64Char(s[1] \div 4),
            Base64Char((s[1] % 4) * 16 + s[2] \div 16),
            Base64Char((s[2] % 16) * 4 + s[3] \div 64),
            Base64Char(s[3] % 64) >>
            \o btoa(SubSeq(s, 4, Len(s)))

\* JSON.stringify of the authorization requests told apart here, and two
\* other texts
CLIENT_ID == Str(<<"c">>)
JSON_WITH_CLIENT ==
    Str(<<"{", "\"", "c", "l", "i", "e", "n", "t", "I", "d", "\"", ":", "\"">>)
        \o CLIENT_ID \o Str(<<"\"", "}">>)
JSON_EMPTY_CLIENT ==
    Str(<<"{", "\"", "c", "l", "i", "e", "n", "t", "I", "d", "\"", ":",
          "\"", "\"", "}">>)
JSON_EMPTY_OBJECT == Str(<<"{", "}">>)
JSON_NULL == Str(<<"n", "u", "l", "l">>)
NOT_JSON == Str(<<"x">>)

\* JSON.parse over these texts: the value, or None when it throws
JsonParse(text) ==
    CASE text = JSON_WITH_CLIENT -> Some([kind |-> "object", clientId |-> Some(CLIENT_ID)])
      [] text = JSON_EMPTY_CLIENT -> Some([kind |-> "object", clientId |-> Some(<< >>)])
      [] text = JSON_EMPTY_OBJECT -> Some([kind |-> "object", clientId |-> None])
      [] text = JSON_NULL -> Some([kind |-> "null"])
      [] OTHER -> None

\* encodeURIComponent of base64 text: '+', '/' and '=' are escaped
RECURSIVE encodeURIComponent(_)
encodeURIComponent(s) ==
    IF s = << >> THEN << >>
    ELSE (CASE Head(s) = 43 -> Str(<<"%", "2", "B">>)
            [] Head(s) = 47 -> Str(<<"%", "2", "F">>)
            [] Head(s) = 61 -> Str(<<"%", "3", "D">>)
            [] OTHER -> << Head(s) >>)
         \o encodeURIComponent(Tail(s))

\* JSON.parse(atob(text)) of one decoding attempt: None when a step throws
ParseState(text) ==
    IF text = None THEN None
    ELSE LET bytes == atob(text[1])
         IN  IF bytes = None THEN None ELSE JsonParse(bytes[1])

\* the two attempts: on decodeURIComponent(rawState), then on rawState
DecodeState(rawState) ==
    LET first == ParseState(decodeURIComponent(rawState))
    IN  IF first # None THEN first ELSE ParseState(Some(rawState))

\* c.req.query("state"): absent, empty, the state redirectToGoogle sends
\* (btoa(JSON.stringify(oauthReqInfo))), the same still escaped, states made
\* of other texts, and strings that are no base64 or no escape
StateTexts == {JSON_WITH_CLIENT, JSON_EMPTY_CLIENT, JSON_EMPTY_OBJECT, JSON_NULL,
               NOT_JSON}
RawStates ==
    {None, Some(<< >>), Some(Str(<<"%">>)), Some(Str(<<"!">>))}
        \cup {Some(btoa(text)) : text \in StateTexts}
        \cup {Some(encodeURIComponent(btoa(text))) : text \in StateTexts}

\* c.req.query("code")
Codes == {None, Some(<< >>), Some(Str(<<"4", "/", "0">>)), Some(Str(<<"4", "/", "1">>))}

\* env.GOOGLE_HOSTED_DOMAIN: unset, empty, or a domain
DOMAIN_D == Str(<<"d">>)
DOMAIN_E == Str(<<"e">>)
HostedDomains == {None, Some(<< >>), Some(DOMAIN_D)}

\* the profile Google answers with: id, email, name, and hd when the
\* account has one
GOOGLE_ID == Str(<<"1">>)
NAME_ANN == Str(<<"A", "n", "n">>)
NAME_BO == Str(<<"B", "o">>)
UserInfos ==
    [id : {GOOGLE_ID}, email : Users, name : {NAME_ANN, NAME_BO},
     hd : {None, Some(<< >>), Some(DOMAIN_D), Some(DOMAIN_E)}]

\* the access_token of an OK token response: one token per code
ACCESS_TOKEN == Str(<<"t">>)
TokenFor(code) == ACCESS_TOKEN \o code

\* how a fetch ends: with an OK status, with another status, or it throws
FetchOutcomes == {"ok", "not_ok", "throw"}

TextResponse(text, status) == [status |-> status, body |-> << Literal(text) >>]

\* what Hono answers when the handler throws
InternalServerError == TextResponse("Internal Server Error", 500)

\* the denial page: a template with the domain and the email put in
AccessDenied(domain, email) ==
    [status |-> 403,
     body |-> << Literal("<h1>Access Denied</h1> you must use an account from the "),
                 Value(domain),
                 Literal(" domain. You authenticated as: <strong>"),
                 Value(email),
                 Literal("</strong>") >>]

\* a plausible slip: a profile without hd passes
Mut_DomainRejected(hostedDomain, hd) ==
    TruthyString(hostedDomain) /\ TruthyString(hd) /\ hd[1] # hostedDomain[1]

\* `c.env.GOOGLE_HOSTED_DOMAIN && (!hd || hd !== c.env.GOOGLE_HOSTED_DOMAIN)`
DomainRejected(hostedDomain, hd) ==
    TruthyString(hostedDomain) /\ (~TruthyString(hd) \/ hd[1] # hostedDomain[1])

\* a plausible slip: the status of the token response is not looked at
Mut_fetchUpstreamAuthToken(code, outcome) ==
    IF ~TruthyString(code)
    THEN [accessToken |-> None, errResponse |-> Some(TextResponse("Missing code", 400))]
    ELSE [accessToken |-> Some(TokenFor(code[1])), errResponse |-> None]

\* fetchUpstreamAuthToken, given how its fetch ends: [accessToken, null] or
\* [null, errResponse]
fetchUpstreamAuthToken(code, outcome) ==
    IF ~TruthyString(code)
    THEN [accessToken |-> None, errResponse |-> Some(TextResponse("Missing code", 400))]
    ELSE IF outcome # "ok"
    THEN [accessToken |-> None,
          errResponse |-> Some(TextResponse("Failed to fetch access token", 500))]
    ELSE [accessToken |-> Some(TokenFor(code[1])), errResponse |-> None]

\* a plausible slip: the name is given where the email belongs
Mut_GrantProps(accessToken, userInfo) ==
    [login |-> userInfo.name, accessToken |-> accessToken,
     email |-> userInfo.name, name |-> userInfo.name]

\* the props of the grant: { login: email, accessToken, email, name }
GrantProps(accessToken, userInfo) ==
    [login |-> userInfo.email, accessToken |-> accessToken,
     email |-> userInfo.email, name |-> userInfo.name]

\* the options completeAuthorization is invoked with (the scope is part of
\* the request)
GrantOptions(oauthReqInfo, accessToken, userInfo) ==
    [metadata |-> [label |-> userInfo.name],
     props |-> GrantProps(accessToken, userInfo),
     request |-> oauthReqInfo,
     userId |-> userInfo.id]

\* the worker between two callback requests; the counters count what the
\* last request has sent
NewCallback(hostedDomain) ==
    [pc |-> "idle", hostedDomain |-> hostedDomain, rawState |-> None,
     code |-> None, oauthReqInfo |-> None, tokenOutcome |-> "none",
     profileOutcome |-> "none", accessToken |-> None, userInfo |-> None,
     grant |-> None,
     tokenRequests |-> 0, profileRequests |-> 0, completions |-> 0,
     response |-> None]

Respond(c, response) == [c EXCEPT !.pc = "done", !.response = Some(response)]

\* GET /callback up to its first await: the state is decoded and checked,
\* then the code, then the token request is sent
CallbackStart(rawState, code) ==
    /\ cb.pc \in {"idle", "done"}
    /\ LET c == [NewCallback(cb.hostedDomain) EXCEPT !.rawState = rawState,
                                                     !.code = code]
           decoded == DecodeState(rawState[1])
       IN  cb' =
            IF ~TruthyString(rawState)
            THEN Respond(c, TextResponse("Missing state parameter", 400))
            ELSE IF decoded = None
            THEN Respond(c, TextResponse("Invalid state parameter", 400))
            ELSE IF decoded[1].kind = "null"
            THEN \* oauthReqInfo.clientId of null: TypeError
                 Respond([c EXCEPT !.oauthReqInfo = decoded], InternalServerError)
            ELSE IF ~TruthyString(decoded[1].clientId)
            THEN Respond([c EXCEPT !.oauthReqInfo = decoded],
                         TextResponse("Invalid state", 400))
            ELSE IF ~TruthyString(code)
            THEN Respond([c EXCEPT !.oauthReqInfo = decoded],
                         TextResponse("Missing authorization code", 400))
            ELSE [c EXCEPT !.pc = "token", !.oauthReqInfo = decoded,
                           !.tokenRequests = @ + 1]
    /\ UNCHANGED <<probe, store, reqs, usedIds, returned, now, out, tools, env>>

\* the token request settles; with an access token the profile request is
\* sent
CallbackTokenDone(outcome) ==
    /\ cb.pc = "token"
    /\ LET c == [cb EXCEPT !.tokenOutcome = outcome]
           token == fetchUpstreamAuthToken(cb.code, outcome)
       IN  cb' =
            IF outcome = "throw" THEN Respond(c, InternalServerError)
            ELSE IF token.errResponse # None
            THEN Respond(c, token.errResponse[1])
            ELSE [c EXCEPT !.pc = "profile", !.accessToken = token.accessToken,
                           !.profileRequests = @ + 1]
    /\ UNCHANGED <<probe, store, reqs, usedIds, returned, now, out, tools, env>>

\* the profile request settles; a profile that passes the domain check is
\* handed to completeAuthorization
CallbackProfileDone(outcome, userInfo) ==
    /\ cb.pc = "profile"
    /\ LET c == [cb EXCEPT !.profileOutcome = outcome] IN
       cb' =
        IF outcome = "throw" THEN Respond(c, InternalServerError)
        ELSE IF outcome = "not_ok"
        THEN Respond(c, TextResponse("Failed to fetch user information", 500))
        ELSE IF DomainRejected(cb.hostedDomain, userInfo.hd)
        THEN Respond([c EXCEPT !.userInfo = Some(userInfo)],
                     AccessDenied(cb.hostedDomain[1], userInfo.email))
        ELSE [c EXCEPT !.pc = "complete", !.userInfo = Some(userInfo),
                       !.completions = @ + 1,
                       !.grant = Some(GrantOptions(cb.oauthReqInfo[1],
                                                   cb.accessToken[1], userInfo))]
    /\ UNCHANGED <<probe, store, reqs, usedIds, returned, now, out, tools, env>>

\* completeAuthorization settles: the client is sent to redirectTo, or the
\* call threw
CallbackCompleteDone(ok) ==
    /\ cb.pc = "complete"
    /\ cb' = Respond(cb, IF ok THEN [status |-> 302, body |-> << >>]
                         ELSE InternalServerError)
    /\ UNCHANGED <<probe, store, reqs, usedIds, returned, now, out, tools, env>>

----------------------------------------------------------------------------
(* The image and sync tools (tools/image-tools.ts, tools/sync-tools.ts):   *)
(* specification SpecTools                                                 *)

\* arguments of generateImage: a prompt, and steps from 4 to 8
PROMPT_TEA == Str(<<"t", "e", "a">>)
MIN_STEPS == 4
MAX_STEPS == 8
Prompts == {<< >>, PROMPT_TEA}
Steps == MIN_STEPS..MAX_STEPS

\* the image the model answers with (response.image), when it has one
IMAGE_DATA == Str(<<"/", "9", "j">>)

\* generateImage is called: the handler awaits env.AI.run
GenerateImageStart(s, prompt, steps) ==
    /\ Registered("generateImage")
    /\ FreeSlot(s)
    /\ reqs' = [reqs EXCEPT ![s] =
            [pc |-> "ai_run", op |-> "generateImage", prompt |-> prompt,
             steps |-> steps, runs |-> 1]]
    /\ out' = NoResponse
    /\ UNCHANGED <<probe, store, usedIds, returned, now, tools, cb, env>>

\* env.AI.run settles: the image is returned, or the call threw and, with no
\* try around it, the exception leaves the handler
GenerateImageDone(s, ok, image) ==
    /\ reqs[s].pc = "ai_run"
    /\ LET r == reqs[s] IN
       out' = IF ok
              THEN [op |-> "generateImage", kind |-> "result",
                    prompt |-> r.prompt, steps |-> r.steps, runs |-> r.runs,
                    content |-> << [type |-> "image", data |-> image,
                                    mimeType |-> "image/jpeg"],
                                   [type |-> "text",
                                    text |-> << Literal("Generated image with prompt: \""),
                                                Value(r.prompt),
                                                Literal("\" using "),
                                                Value(ToDecimal(r.steps)),
                                                Literal(" steps") >>] >>]
              ELSE [op |-> "generateImage", kind |-> "fault",
                    prompt |-> r.prompt, steps |-> r.steps, runs |-> r.runs]
    /\ reqs' = [reqs EXCEPT ![s] = Idle]
    /\ UNCHANGED <<probe, store, usedIds, returned, now, tools, cb, env>>

\* the values a binding of the sync tool can have: unset, empty, set
ACCOUNT_ID == Str(<<"a", "c">>)
API_TOKEN == Str(<<"t", "o">>)
RAG_ID == Str(<<"r">>)
Envs ==
    [CLOUDFLARE_ACCOUNT_ID : {None, Some(<< >>), Some(ACCOUNT_ID)},
     CLOUDFLARE_API_TOKEN : {None, Some(<< >>), Some(API_TOKEN)},
     AUTORAG_ID : {None, Some(<< >>), Some(RAG_ID)}]

\* a plausible slip: the AutoRAG id is not looked at
Mut_EnvMissing(e) ==
    ~TruthyString(e.CLOUDFLARE_ACCOUNT_ID) \/ ~TruthyString(e.CLOUDFLARE_API_TOKEN)

\* `!env.CLOUDFLARE_ACCOUNT_ID || !env.CLOUDFLARE_API_TOKEN || !env.AUTORAG_ID`
EnvMissing(e) ==
    \/ ~TruthyString(e.CLOUDFLARE_ACCOUNT_ID)
    \/ ~TruthyString(e.CLOUDFLARE_API_TOKEN)
    \/ ~TruthyString(e.AUTORAG_ID)

\* the sync API URL, with the account and the AutoRAG id put in, such as
\* the bindings hold them
SyncUrl(e) ==
    << Literal("https://api.cloudflare.com/client/v4/accounts/"),
       Value(e.CLOUDFLARE_ACCOUNT_ID), Literal("/autorag/rags/"),
       Value(e.AUTORAG_ID), Literal("/sync") >>

\* how the PATCH ends: the fetch throws; a response that is not OK, whose
\* text can be read or not; an OK response whose body is no JSON, is null,
\* or is an object with success true, false or absent
SyncOutcomes ==
    {[kind |-> "throw"]}
        \cup [kind : {"response"}, ok : {FALSE}, body : {"text", "unreadable"}]
        \cup [kind : {"response"}, ok : {TRUE},
              body : {"not_json", "null", "success_true", "success_false",
                      "no_success"}]

SyncResponse(r, success, error) ==
    [op |-> "sync_autorag", kind |-> "result", force |-> r.force,
     configured |-> r.configured, requests |-> r.requests,
     outcome |-> r.outcome, success |-> success, error |-> error]

\* sync_autorag is called (force defaults to false): without its bindings it
\* answers at once; with them it sends the PATCH
SyncAutoragStart(s, force) ==
    /\ Registered("sync_autorag")
    /\ FreeSlot(s)
    /\ LET r == [pc |-> "fetch", op |-> "sync_autorag",
                 force |-> (force # None /\ force[1]),
                 configured |-> ~EnvMissing(env), requests |-> 0,
                 outcome |-> [kind |-> "none"]]
       IN  IF EnvMissing(env)
           THEN /\ out' = SyncResponse(r, FALSE, "Missing required environment variables")
                /\ UNCHANGED reqs
           ELSE /\ reqs' = [reqs EXCEPT ![s] =
                        [r EXCEPT !.requests = @ + 1] @@
                        [url |-> SyncUrl(env),
                         body |-> IF r.force THEN Some([force |-> TRUE]) ELSE None]]
                /\ out' = NoResponse
    /\ UNCHANGED <<probe, store, usedIds, returned, now, tools, cb, env>>

\* the PATCH settles; whatever is thrown on the way is caught ("Sync
\* operation failed")
SyncAutoragDone(s, outcome) ==
    /\ reqs[s].pc = "fetch"
    /\ LET r == [reqs[s] EXCEPT !.outcome = outcome] IN
       out' =
        IF outcome.kind = "throw"
        THEN SyncResponse(r, FALSE, "Sync operation failed")
        ELSE IF ~outcome.ok
        THEN IF outcome.body = "unreadable"
             THEN SyncResponse(r, FALSE, "Sync operation failed")
             ELSE SyncResponse(r, FALSE, "AutoRAG sync request failed")
        ELSE IF outcome.body \in {"not_json", "null"}
        THEN \* response.json() rejects, or syncResult.success of null throws
             SyncResponse(r, FALSE, "Sync operation failed")
        ELSE IF outcome.body = "success_true"
        THEN SyncResponse(r, TRUE, "")
        ELSE SyncResponse(r, FALSE, "AutoRAG sync failed")
    /\ reqs' = [reqs EXCEPT ![s] = Idle]
    /\ UNCHANGED <<probe, store, usedIds, returned, now, tools, cb, env>>

----------------------------------------------------------------------------
(* Specifications                                                          *)

\* none of the sync tool's bindings set
NoEnv == [CLOUDFLARE_ACCOUNT_ID |-> None, CLOUDFLARE_API_TOKEN |-> None,
          AUTORAG_ID |-> None]

DefaultProbe ==
    [user |-> USER_A, owner |-> USER_A, tail |-> << >>, out |-> NoProbeResult]
NoCallback == [pc |-> "none"]
NoTools == [inited |-> FALSE, names |-> {}]

\* the agent after construction, with the given invocation slots
AgentInit(slots) ==
    /\ probe = DefaultProbe
    /\ store = << >>
    /\ reqs = [s \in slots |-> Idle]
    /\ usedIds = {}
    /\ returned = {}
    /\ now = EpochDay * DayMs
    /\ out = NoResponse
    /\ tools = NoTools
    /\ cb = NoCallback
    /\ env = NoEnv

\* randomUUID's values are interchangeable: the next one is the first unused
NextId == IdOf(Cardinality(usedIds) + 1)

\* the steps of the note tools; Outcomes: how an object-store call may end
\* (TRUE: it succeeds, FALSE: it throws)
NoteToolsNext(slots, inputs, ids, Outcomes) ==
    \/ \E s \in slots, user \in Users, input \in inputs, id \in ids :
            CreateNoteStart(s, user, input, id)
    \/ \E s \in slots, ok \in Outcomes : CreateNotePutNoteDone(s, ok)
    \/ \E s \in slots, ok \in Outcomes : CreateNotePutSidecarDone(s, ok)
    \/ \E s \in slots, user \in Users, note_id \in NoteIds :
            DeleteNoteStart(s, user, note_id)
    \/ \E s \in slots, ok \in Outcomes : DeleteNoteHeadDone(s, ok)
    \/ \E s \in slots, ok \in Outcomes : DeleteNoteGetDone(s, ok)
    \/ \E s \in slots, ok \in Outcomes :
            \E key \in PendingDeletes(s) : DeleteNoteDeleteDone(s, key, ok)

(* Spec: the agent and its note tools, with invocations in flight side by  *)
(* side and object-store calls that may fail                               *)

TaskInputs == {[text |-> TEXT_BUY_MILK, title |-> None, note_type |-> "task"]}

Init == AgentInit(Slots)

Next == MCPInit \/ NoteToolsNext(Slots, TaskInputs, {NextId}, BOOLEAN)

Spec == Init /\ [][Next]_vars

(* SpecSeq: one invocation at a time, over the days, with the search tools *)

Limits == {1, DEFAULT_LIMIT}
DayOffsets == {None, Some(1)}

InitSeq == AgentInit({1})

NextSeq ==
    \/ MCPInit
    \/ TickDay
    \/ NoteToolsNext({1}, TaskInputs, {NextId}, BOOLEAN)
    \/ \E user \in Users, limit \in Limits :
            SearchNotesSimpleStart(1, user, QUERY_BUY, limit)
    \/ SearchNotesSimpleDone(1)
    \/ \E user \in Users, limit \in Limits,
          since_days \in DayOffsets, until_days \in DayOffsets :
            SearchNotesAdvancedStart(1, user, QUERY_BUY, limit, since_days, until_days)
    \/ SearchNotesAdvancedDone(1, BOOLEAN)
    \/ \E user \in Users, since_days \in DayOffsets, until_days \in DayOffsets :
            AiSearchNotesStart(1, user, QUERY_BUY, AI_DEFAULT_LIMIT, since_days,
                               until_days)
    \/ AiSearchNotesDone(1)

SpecSeq == InitSeq /\ [][NextSeq]_vars

(* SpecNotes: one invocation at a time of the note tools, over the days,  *)
(* with every argument and every identifier                               *)

NextNotes ==
    \/ MCPInit
    \/ TickDay
    \/ NoteToolsNext({1}, NoteInputs, NoteIds, BOOLEAN)

SpecNotes == InitSeq /\ [][NextNotes]_vars

(* SpecFilter: the filter builders on their own                            *)

InitFilter ==
    /\ ProbeInit
    /\ store = << >>
    /\ reqs = [s \in {1} |-> Idle]
    /\ usedIds = {}
    /\ returned = {}
    /\ now = EpochDay * DayMs
    /\ out = NoResponse
    /\ tools = NoTools
    /\ cb = NoCallback
    /\ env = NoEnv

NextFilter == ApplyUserFolderFilter \/ ApplyAdvancedFilter

SpecFilter == InitFilter /\ [][NextFilter]_vars

(* SpecAdvanced: createAdvancedFilter over users and options               *)

InitAdvanced ==
    /\ AdvancedProbeInit
    /\ store = << >>
    /\ reqs = [s \in {1} |-> Idle]
    /\ usedIds = {}
    /\ returned = {}
    /\ now = EpochDay * DayMs
    /\ out = NoResponse
    /\ tools = NoTools
    /\ cb = NoCallback
    /\ env = NoEnv

NextAdvanced == CallCreateAdvancedFilter

SpecAdvanced == InitAdvanced /\ [][NextAdvanced]_vars

(* SpecAuth: the OAuth callback, one request at a time                     *)

InitAuth ==
    /\ probe = DefaultProbe
    /\ store = << >>
    /\ reqs = [s \in {1} |-> Idle]
    /\ usedIds = {}
    /\ returned = {}
    /\ now = EpochDay * DayMs
    /\ out = NoResponse
    /\ tools = NoTools
    /\ cb \in {NewCallback(hostedDomain) : hostedDomain \in HostedDomains}
    /\ env = NoEnv

NextAuth ==
    \/ \E rawState \in RawStates, code \in Codes : CallbackStart(rawState, code)
    \/ \E outcome \in FetchOutcomes : CallbackTokenDone(outcome)
    \/ \E outcome \in FetchOutcomes, userInfo \in UserInfos :
            CallbackProfileDone(outcome, userInfo)
    \/ \E ok \in BOOLEAN : CallbackCompleteDone(ok)

SpecAuth == InitAuth /\ [][NextAuth]_vars

(* SpecTools: a server on which the image and sync tools have been        *)
(* registered, as registerImageTools and registerSyncTools do when called; *)
(* one invocation at a time                                                *)

InitTools ==
    /\ probe = DefaultProbe
    /\ store = << >>
    /\ reqs = [s \in {1} |-> Idle]
    /\ usedIds = {}
    /\ returned = {}
    /\ now = EpochDay * DayMs
    /\ out = NoResponse
    /\ tools = [inited |-> TRUE, names |-> registerSyncTools(registerImageTools({}))]
    /\ cb = NoCallback
    /\ env \in Envs

NextTools ==
    \/ \E prompt \in Prompts, steps \in Steps : GenerateImageStart(1, prompt, steps)
    \/ \E ok \in BOOLEAN, image \in {None, Some(IMAGE_DATA)} :
            GenerateImageDone(1, ok, image)
    \/ \E force \in {None, Some(FALSE), Some(TRUE)} : SyncAutoragStart(1, force)
    \/ \E outcome \in SyncOutcomes : SyncAutoragDone(1, outcome)

SpecTools == InitTools /\ [][NextTools]_vars

(* SpecCalls: the worker that receives callbacks, the agent with its note *)
(* and search tools, and a server with the image and sync tools, each from *)
(* its own start, one request at a time                                    *)

InitCalls == InitSeq \/ InitAuth \/ InitTools

NextCalls ==
    \/ cb = NoCallback /\ MCPInit
    \/ NoteToolsNext({1}, TaskInputs, {NextId}, BOOLEAN)
    \/ \E user \in Users : SearchNotesSimpleStart(1, user, QUERY_BUY, DEFAULT_LIMIT)
    \/ SearchNotesSimpleDone(1)
    \/ \E user \in Users :
            SearchNotesAdvancedStart(1, user, QUERY_BUY, DEFAULT_LIMIT, None, None)
    \/ SearchNotesAdvancedDone(1, BOOLEAN)
    \/ \E user \in Users :
            AiSearchNotesStart(1, user, QUERY_BUY, AI_DEFAULT_LIMIT, None, None)
    \/ AiSearchNotesDone(1)
    \/ NextAuth
    \/ NextTools

SpecCalls == InitCalls /\ [][NextCalls]_vars

----------------------------------------------------------------------------
(* Properties                                                              *)

\* C1 (SpecFilter): a filter built for a user matches no key and no folder
\* that belongs to another user, and matches every note key
\* <user>/<id>.md and sidecar key <user>/.metadata/<id>.json of its own
\* user, together with their folders.
C1_FilterKeepsToItsUser ==
    probe.out.fn # "none" =>
        /\ probe.owner # probe.user => ~probe.out.path /\ ~probe.out.folder
        /\ (probe.owner = probe.user /\ probe.tail \in NoteTails)
                => probe.out.path /\ probe.out.folder

\* the other user's name continues the filter's user, and the filter has
\* been applied to one of the other user's note keys
C1_Witness ==
    /\ probe.out.fn = "createUserFolderFilter"
    /\ probe.owner # probe.user
    /\ StartsWith(probe.owner, probe.user)
    /\ probe.tail \in NoteTails
    /\ ~probe.out.folder

\* the keys a request or a response records as touched for its user
KeysTouched(r) ==
    (IF "calls" \in DOMAIN r THEN {r.calls[i].key : i \in 1..Len(r.calls)} ELSE {})
        \cup (IF "listed" \in DOMAIN r THEN {r.listed[i] : i \in 1..Len(r.listed)}
              ELSE {})

KeysUnderCaller(r) ==
    \A key \in KeysTouched(r) :
        /\ StartsWith(key, r.user \o SLASH)
        /\ \A other \in Users \ {r.user} : ~StartsWith(key, other \o SLASH)

StoreChangedAt(key) ==
    \/ (key \in DOMAIN store) # (key \in DOMAIN store')
    \/ key \in DOMAIN store /\ key \in DOMAIN store' /\ store[key] # store'[key]

\* C2 (SpecSeq): every key that create_note, delete_note, the sidecar
\* enrichment or the fallback listing of search_notes_advanced puts, deletes,
\* reads or lists for a user begins with that user's email and '/', and none
\* lies under another user's folder; a step changes the store only at keys
\* under the folder of the user whose request is running.
C2_KeysUnderOwnFolder ==
    /\ [](/\ \A s \in DOMAIN reqs : reqs[s].pc # "idle" => KeysUnderCaller(reqs[s])
          /\ out.kind # "none" => KeysUnderCaller(out))
    /\ [][\A key \in DOMAIN store \cup DOMAIN store' :
            StoreChangedAt(key) =>
                \E s \in DOMAIN reqs : /\ reqs[s].pc # "idle"
                                       /\ StartsWith(key, reqs[s].user \o SLASH)]_vars

\* the fallback listing has listed the caller's objects while the store
\* holds another user's objects
C2_Witness ==
    /\ out.op = "search_notes_advanced"
    /\ out.kind = "result"
    /\ out.fallback
    /\ Len(out.listed) > 0
    /\ \E key \in DOMAIN store : ~StartsWith(key, out.user \o SLASH)

\* C4 (Spec): when the head of a delete_note settles and the primary object
\* <user>/<id>.md is not stored, the step answers with a result payload whose
\* success is false, never a fault, after the head alone, and leaves the
\* store as it was; the error is "Note not found" unless the head itself
\* threw.
C4_DeleteOfMissingNote ==
    [][\A s \in DOMAIN reqs :
        (/\ reqs[s].pc = "head"
         /\ reqs'[s].pc # "head"
         /\ NotePath(reqs[s].user, reqs[s].note_id) \notin DOMAIN store)
        => /\ out'.op = "delete_note"
           /\ out'.kind = "result"
           /\ out'.user = reqs[s].user
           /\ out'.note_id = reqs[s].note_id
           /\ ~out'.success
           /\ out'.files_deleted = << >>
           /\ out'.calls = << Call("head", NotePath(reqs[s].user, reqs[s].note_id)) >>
           /\ out'.threw = {} => out'.error = "Note not found"
           /\ store' = store]_vars

\* "Note not found" has been answered for an id whose sidecar is stored
C4_Witness ==
    /\ out.op = "delete_note"
    /\ out.noteExists = "null"
    /\ out.error = "Note not found"
    /\ MetadataPath(out.user, out.note_id) \in DOMAIN store

\* C5 (SpecNotes): a delete_note of the id a create_note has just returned,
\* none of whose store calls threw, reports success and leaves neither
\* <user>/<id>.md nor <user>/.metadata/<id>.json in the store.
C5_CreateThenDelete ==
    (out.op = "delete_note" /\ out.afterCreate /\ out.threw = {})
        => /\ out.success
           /\ NotePath(out.user, out.note_id) \notin DOMAIN store
           /\ MetadataPath(out.user, out.note_id) \notin DOMAIN store

\* the note with the given title has been created and deleted at once
C5_Witness ==
    /\ out.op = "delete_note"
    /\ out.afterCreate
    /\ out.threw = {}
    /\ out.success
    /\ out.noteTitle = TITLE_MILK_RUN

\* the service results search_notes_simple is to keep
IsNoteResult(r) ==
    /\ r.filename # None
    /\ ~\E i \in 1..Len(r.filename[1]) :
            StartsWith(SubSeq(r.filename[1], i, Len(r.filename[1])), METADATA_SEGMENT)

ServiceData(answer) == IF answer.data = None THEN << >> ELSE answer.data[1]

\* C6 (SpecSeq): a result of search_notes_simple holds no result whose
\* filename contains '/.metadata/' and none without a filename; its results
\* are the service's other results, in the service's order; total_results
\* counts the service's results and filtered_results those returned.
C6_SimpleSearchDropsSidecars ==
    (out.op = "search_notes_simple" /\ out.kind = "result")
        => /\ \A i \in 1..Len(out.results) : IsNoteResult(out.results[i])
           /\ out.results = SelectSeq(ServiceData(out.answer), IsNoteResult)
           /\ out.total_results = Len(ServiceData(out.answer))
           /\ out.filtered_results = Len(out.results)

\* the service ranked a sidecar before a note, and the note alone is returned
C6_Witness ==
    /\ out.op = "search_notes_simple"
    /\ out.kind = "result"
    /\ out.total_results = 2
    /\ out.filtered_results = 1
    /\ ~IsNoteResult(ServiceData(out.answer)[1])

\* the number a decimal string stands for
RECURSIVE ToNumber(_)
ToNumber(digits) ==
    IF digits = << >> THEN 0
    ELSE 10 * ToNumber(SubSeq(digits, 1, Len(digits) - 1))
            + (digits[Len(digits)] - 48)

\* when the stored note behind a result of search_notes_advanced was created
CreatedAt(result) ==
    IF "key" \in DOMAIN result
    THEN store[result.key].customMetadata[1].created_timestamp
    ELSE store[result.filename[1]].customMetadata[1].created_timestamp

\* C7 (SpecSeq), the statement the handler does not meet: a result of
\* search_notes_advanced called with since_days = N holds no note created
\* more than N days before the call, on the search path and on the path taken
\* when the search service fails.
C7_SinceDaysHonoured ==
    (out.op = "search_notes_advanced" /\ out.kind = "result"
        /\ out.since_days # None)
        => \A i \in 1..Len(out.results) :
              ToNumber(CreatedAt(out.results[i]))
                    >= out.calledAt - out.since_days[1] * DayMs

\* the callback has a domain allowlist when GOOGLE_HOSTED_DOMAIN is set and
\* not empty
AllowlistConfigured == cb.hostedDomain # None /\ cb.hostedDomain[1] # << >>

\* C3 (SpecAuth): with an allowlist configured, a fetched profile whose hd
\* is missing or differs from it is answered with a 403 page that holds the
\* profile's email, and completeAuthorization is not invoked for the
\* request; with no allowlist configured, a fetched profile is never
\* answered with the denial and is handed to completeAuthorization.
C3_HostedDomainCheck ==
    (cb.pc # "idle" /\ cb.userInfo # None) =>
        IF AllowlistConfigured
              /\ (cb.userInfo[1].hd = None \/ cb.userInfo[1].hd[1] # cb.hostedDomain[1])
        THEN /\ cb.pc = "done"
             /\ cb.response[1].status = 403
             /\ \E i \in 1..Len(cb.response[1].body) :
                    cb.response[1].body[i] = Value(cb.userInfo[1].email)
             /\ cb.completions = 0
        ELSE ~AllowlistConfigured =>
                /\ cb.completions = 1
                /\ cb.response # None => cb.response[1].status # 403

\* an account without hd has been turned away by a configured allowlist
C3_Witness ==
    /\ cb.pc = "done"
    /\ AllowlistConfigured
    /\ cb.userInfo # None
    /\ cb.userInfo[1].hd = None
    /\ cb.response[1].status = 403

\* the input of the running callback request is malformed: no state, a
\* state neither attempt decodes, a decoded state without clientId, or no
\* authorization code
MalformedCallback ==
    \/ ~TruthyString(cb.rawState)
    \/ DecodeState(cb.rawState[1]) = None
    \/ DecodeState(cb.rawState[1])[1].kind # "object"
    \/ ~TruthyString(DecodeState(cb.rawState[1])[1].clientId)
    \/ ~TruthyString(cb.code)

\* C8 (SpecAuth), the statement the handler does not meet: a callback
\* request with a malformed input is answered with a 400, and it sends no
\* token request, no profile request, and invokes no completeAuthorization.
C8_MalformedInputIs400 ==
    (cb.pc # "idle" /\ MalformedCallback) =>
        /\ cb.pc = "done"
        /\ cb.response[1].status = 400
        /\ cb.tokenRequests = 0
        /\ cb.profileRequests = 0
        /\ cb.completions = 0

\* C9 (SpecAuth): a token response with a non-OK status is answered with a
\* 500, with no profile request and no completeAuthorization; a profile
\* response with a non-OK status is answered with a 500, with no
\* completeAuthorization.
C9_UpstreamFailureIs500 ==
    /\ cb.pc # "idle" /\ cb.tokenOutcome = "not_ok" =>
            /\ cb.pc = "done"
            /\ cb.response[1].status = 500
            /\ cb.profileRequests = 0
            /\ cb.completions = 0
    /\ cb.pc # "idle" /\ cb.profileOutcome = "not_ok" =>
            /\ cb.pc = "done"
            /\ cb.response[1].status = 500
            /\ cb.completions = 0

\* the code exchange has been refused
C9_Witness ==
    /\ cb.pc = "done"
    /\ cb.tokenRequests = 1
    /\ cb.tokenOutcome = "not_ok"
    /\ cb.response[1].status = 500

\* C10 (Spec), the statement init() does not meet: once init() has run, the
\* registered tools are create_note, delete_note, search_notes_simple,
\* search_notes_advanced, ai_search_notes, generateImage and sync_autorag.
C10_SevenToolsRegistered ==
    tools.inited =>
        tools.names = {"create_note", "delete_note", "search_notes_simple",
                       "search_notes_advanced", "ai_search_notes",
                       "generateImage", "sync_autorag"}

\* C11 (SpecTools), the statement the handler does not meet: whatever way
\* the image model's run ends, generateImage answers with a result payload,
\* and no exception leaves the handler.
C11_ImageFailureIsPayload ==
    out.op = "generateImage" => out.kind = "result"

\* C12 (SpecTools): sync_autorag always answers with a result payload that
\* has a success flag; without one of its three bindings it sends no request
\* and success is false; with them it sends exactly one request, and success
\* is true exactly when the response is OK and its body has success true
\* (so it is false when the request throws, the status is not OK, or the
\* body has success false).
C12_SyncAlwaysAnswers ==
    /\ \A s \in DOMAIN reqs :
        (reqs[s].pc # "idle" /\ reqs[s].op = "sync_autorag")
            => reqs[s].requests = 1 /\ ~EnvMissing(env)
    /\ out.op = "sync_autorag" =>
        /\ out.kind = "result"
        /\ out.success \in BOOLEAN
        /\ (\E name \in DOMAIN env : env[name] = None \/ env[name] = Some(<< >>))
                => (out.requests = 0 /\ ~out.success)
        /\ (\A name \in DOMAIN env : env[name] # None /\ env[name] # Some(<< >>))
                => /\ out.requests = 1
                   /\ out.success <=>
                        (/\ out.outcome.kind = "response"
                         /\ out.outcome.ok
                         /\ out.outcome.body = "success_true")

\* the sync request was accepted and the service reported success false
C12_Witness ==
    /\ out.op = "sync_autorag"
    /\ out.requests = 1
    /\ out.outcome = [kind |-> "response", ok |-> TRUE, body |-> "success_false"]
    /\ ~out.success

\* C13 (SpecSeq): when the search call throws or answers something that is
\* no object, search_notes_simple and ai_search_notes answer with a text
\* that begins "Search error:", not with a fault, make no call on the object
\* store and list nothing.
C13_SearchErrorIsText ==
    (out.op \in {"search_notes_simple", "ai_search_notes"}
        /\ out.answer.kind # "object")
        => /\ out.kind = "search_error"
           /\ out.text[1] = Literal("Search error: ")
           /\ out.calls = << >>
           /\ "listed" \notin DOMAIN out
           /\ "fallback" \notin DOMAIN out

\* ai_search_notes got an answer that is no object while the caller has
\* a note a listing would find
C13_Witness ==
    /\ out.op = "ai_search_notes"
    /\ out.answer.kind = "nonobject"
    /\ out.kind = "search_error"
    /\ NotePath(out.user, IdOf(1)) \in DOMAIN store

\* the title a listed object carries in its custom metadata, if the listing
\* carries custom metadata and the object has some
TitleListed(key, withMetadata) ==
    IF withMetadata /\ store[key].customMetadata # None
    THEN store[key].customMetadata[1].title
    ELSE << >>

\* the query is a substring of the title, letter case apart
ContainsIgnoringCase(title, query) ==
    \E i \in 1..(Len(title) - Len(query) + 1) :
        \A j \in 1..Len(query) :
            LET a == title[i + j - 1]
                b == query[j]
            IN  (IF a \in 65..90 THEN a + 32 ELSE a) = (IF b \in 65..90 THEN b + 32 ELSE b)

\* C14 (SpecSeq): when the search call of search_notes_advanced fails and
\* the listing does not, the handler has listed the objects under <user>/
\* and answers, with fallback true, the first `limit` of the listed objects
\* whose title custom metadata contains the query, letter case apart, in the
\* order of the listing, with every such object counted in total; no
\* sidecar object is among them.
C14_FallbackListing ==
    (out.op = "search_notes_advanced" /\ out.answer.kind # "object"
        /\ out.kind # "fault")
        => LET matching == SelectSeq(out.listed, LAMBDA key :
                    ContainsIgnoringCase(TitleListed(key, out.withMetadata),
                                         out.query))
           IN  /\ out.kind = "result"
               /\ out.fallback
               /\ out.calls = << Call("list", out.user \o SLASH) >>
               /\ {out.listed[i] : i \in 1..Len(out.listed)}
                    = {key \in DOMAIN store : StartsWith(key, out.user \o SLASH)}
               /\ out.total = Len(matching)
               /\ Len(out.results) = Min(out.limit, Len(matching))
               /\ \A i \in 1..Len(out.results) :
                    /\ out.results[i].key = matching[i]
                    /\ ~Includes(out.results[i].key, METADATA_SEGMENT)

\* two of the caller's notes match, sidecars were listed with them, and the
\* limit keeps the first match only
C14_Witness ==
    /\ out.op = "search_notes_advanced"
    /\ out.kind = "result"
    /\ out.fallback
    /\ Len(out.listed) = 4
    /\ out.total = 2
    /\ Len(out.results) = 1

\* C15 (SpecSeq): in an answer of search_notes_advanced made from the search
\* results, every result that is not a sidecar is kept, a result whose
\* sidecar object is got and parses carries the sidecar's data, and a result
\* whose sidecar is missing, unreadable or corrupt carries none.
C15_SidecarReachesCaller ==
    (out.op = "search_notes_advanced" /\ out.kind = "result" /\ ~out.fallback)
        => LET kept == SelectSeq(ServiceData(out.answer), IsNoteResult)
           IN  /\ Len(out.results) = Len(kept)
               /\ \A i \in 1..Len(kept) :
                    LET key == SidecarKeyOf(kept[i], out.user)
                        readable == /\ key # None
                                    /\ key[1] \in DOMAIN store
                                    /\ key[1] \notin out.threw
                                    /\ store[key[1]].kind = "json"
                    IN  /\ out.results[i].filename = kept[i].filename
                        /\ out.results[i].enriched_metadata
                            = IF readable THEN store[key[1]].body ELSE None

\* the type prefixes of the derived titles
PrefixOfType ==
    [meeting |-> Str(<<"M", "e", "e", "t", "i", "n", "g", " ", "N", "o", "t", "e", "s">>),
     idea |-> Str(<<"I", "d", "e", "a">>),
     task |-> Str(<<"T", "a", "s", "k">>),
     diary |-> Str(<<"J", "o", "u", "r", "n", "a", "l", " ", "E", "n", "t", "r", "y">>),
     code |-> Str(<<"C", "o", "d", "e", " ", "S", "n", "i", "p", "p", "e", "t">>),
     other |-> Str(<<"N", "o", "t", "e">>)]

\* title is the type prefix, a colon and a space, then a part of the text,
\* with an ellipsis after it or not
DerivedFrom(title, text, noteType) ==
    LET lead == PrefixOfType[noteType] \o Str(<<":", " ">>)
        rest == SubSeq(title, Len(lead) + 1, Len(title))
        dots == Str(<<".", ".", ".">>)
    IN  /\ StartsWith(title, lead)
        /\ rest # << >>
        /\ \/ Includes(text, rest)
           \/ EndsWith(rest, dots)
                /\ Includes(text, SubSeq(rest, 1, Len(rest) - Len(dots)))

\* the maximal runs of non-whitespace characters of text, counted at their
\* last characters
RunsOf(text) ==
    Cardinality({i \in 1..Len(text) :
                    /\ text[i] \notin {9, 10, 11, 12, 13, 32}
                    /\ (i = Len(text) \/ text[i + 1] \in {9, 10, 11, 12, 13, 32})})

\* C16 (SpecNotes): a result of create_note carries the id of the call; its
\* storage.note is <caller>/<id>.md and its storage.sidecar is
\* <caller>/.metadata/<id>.json, the two keys the call has put, in this
\* order, and both objects are stored; metadata.author is the caller; the
\* title is the given title, or else the type prefix followed by a part of
\* the text; word_count is the number of maximal runs of non-whitespace
\* characters of the text, 2 for "Buy milk".
C16_CreateNoteResult ==
    (out.op = "create_note" /\ out.kind = "result")
        => LET note == out.user \o Str(<<"/">>) \o out.id \o Str(<<".", "m", "d">>)
               sidecar == out.user
                    \o Str(<<"/", ".", "m", "e", "t", "a", "d", "a", "t", "a", "/">>)
                    \o out.id \o Str(<<".", "j", "s", "o", "n">>)
               given == out.input.title
           IN  /\ out.metadata.id = out.id
               /\ out.storage.note = note
               /\ out.storage.sidecar = sidecar
               /\ out.calls = << Call("put", note), Call("put", sidecar) >>
               /\ {note, sidecar} \subseteq DOMAIN store
               /\ out.metadata.author = out.user
               /\ IF given # None /\ given[1] # << >>
                  THEN out.metadata.title = given[1]
                  ELSE DerivedFrom(out.metadata.title, out.input.text,
                                   out.input.note_type)
               /\ out.metadata.word_count = RunsOf(out.input.text)
               /\ (out.input.text = TEXT_BUY_MILK => out.metadata.word_count = 2)

\* "Buy milk" was stored as a task without a title
C16_Witness ==
    /\ out.op = "create_note"
    /\ out.kind = "result"
    /\ out.input.title = None
    /\ out.input.text = TEXT_BUY_MILK
    /\ out.metadata.word_count = 2

\* C17 (SpecAdvanced): createAdvancedFilter(user, {since, until}) is an AND
\* of the two folder clauses of createUserFolderFilter(user), then a clause
\* timestamp >= since exactly when since is given, then a clause
\* timestamp <= until exactly when until is given; with neither it equals
\* createUserFolderFilter(user).
C17_ClausesExactlyWhenProvided ==
    probe.out # None =>
        LET filter == probe.out[1]
            since == probe.options.since_timestamp
            until == probe.options.until_timestamp
            folder == createUserFolderFilter(probe.user)
        IN  /\ filter.type = "and"
            /\ folder.type = "and"
            /\ Len(folder.filters) = 2
            /\ filter.filters
                = folder.filters
                    \o (IF since # None
                        THEN << [type |-> "gte", key |-> "timestamp",
                                 value |-> since[1]] >>
                        ELSE << >>)
                    \o (IF until # None
                        THEN << [type |-> "lte", key |-> "timestamp",
                                 value |-> until[1]] >>
                        ELSE << >>)
            /\ (since = None /\ until = None => filter = folder)

\* no element occurs twice in the sequence
NoDuplicates(seq) ==
    \A i, j \in 1..Len(seq) : seq[i] = seq[j] => i = j

\* how many of the counted calls a request or a response records
Counted(r, field) == IF field \in DOMAIN r THEN r[field] ELSE 0

\* the object-store calls a request or a response records
CallsOf(r) == IF "calls" \in DOMAIN r THEN r.calls ELSE << >>

\* C18 (SpecCalls): within one request, the token exchange, the profile
\* fetch, the search call and the sync request are each sent at most once,
\* and no object-store call (put, head, get, delete, list) is issued twice
\* for the same key, whether the calls succeed or fail.
C18_NoCallTwice ==
    /\ \A s \in DOMAIN reqs :
        /\ NoDuplicates(CallsOf(reqs[s]))
        /\ Counted(reqs[s], "searches") <= 1
        /\ Counted(reqs[s], "requests") <= 1
    /\ NoDuplicates(CallsOf(out))
    /\ Counted(out, "requests") <= 1
    /\ Counted(cb, "tokenRequests") <= 1
    /\ Counted(cb, "profileRequests") <= 1
    /\ Counted(cb, "completions") <= 1

\* a delete_note whose deletes were both issued and one of them failed
C18_Witness ==
    /\ out.op = "delete_note"
    /\ out.kind = "result"
    /\ "delete" \in out.threw
    /\ Len(out.calls) = 4

\* C19 (SpecNotes): in create_note the put of the note and the put of the
\* sidecar are issued together, so while the handler awaits the note's put
\* the sidecar's put has been issued as well; and nothing is undone: after
\* a call in which a put failed, the object the other put has written is
\* in the store.
C19_PutsIssuedTogether ==
    /\ \A s \in DOMAIN reqs :
        (reqs[s].pc = "put_note")
            => \E i \in 1..Len(reqs[s].calls) :
                    reqs[s].calls[i]
                        = Call("put", MetadataPath(reqs[s].user, reqs[s].id))
    /\ (out.op = "create_note" /\ out.kind = "fault" /\ Len(out.calls) = 2)
            => NotePath(out.user, out.id) \in DOMAIN store

\* C20 (SpecNotes): in the first delete_note of a note that create_note has
\* returned, when one of the two deletes has removed its object and the
\* other has failed, the object that is left stays in the store and the
\* response does not report a failure.
C20_PartialDeleteUnreported ==
    LET notePath == NotePath(out.user, out.note_id)
        metadataPath == MetadataPath(out.user, out.note_id)
    IN  (/\ out.op = "delete_note"
         /\ out.kind = "result"
         /\ out.afterCreate
         /\ "delete" \in out.threw
         /\ Cardinality({notePath, metadataPath} \cap DOMAIN store) = 1)
            => out.success /\ out.error = ""

\* the two delete calls are among the calls, each once
BothDeletesIssued(calls, user, note_id) ==
    \A key \in {user \o Str(<<"/">>) \o note_id \o Str(<<".", "m", "d">>),
                user \o Str(<<"/", ".", "m", "e", "t", "a", "d", "a", "t", "a", "/">>)
                     \o note_id \o Str(<<".", "j", "s", "o", "n">>)} :
        Cardinality({i \in 1..Len(calls) : calls[i] = Call("delete", key)}) = 1

\* C21 (SpecNotes): in a delete_note that found the note, when the get of
\* the sidecar threw, found nothing, or found a body that is not JSON (which
\* no tool writes), the handler goes on: both deletes are issued and the
\* title it holds, and reports when the deletes succeed, is "Unknown".
C21_SidecarTroubleDoesNotAbort ==
    /\ \A s \in DOMAIN reqs :
        LET r == reqs[s]
            sidecar == MetadataPath(r.user, r.note_id)
        IN  (/\ r.pc = "deleting"
             /\ Cardinality(r.pending) = 2
             /\ \/ "get" \in r.threw
                \/ sidecar \notin DOMAIN store
                \/ store[sidecar].kind # "json")
                => /\ BothDeletesIssued(r.calls, r.user, r.note_id)
                   /\ r.noteTitle = Str(<<"U", "n", "k", "n", "o", "w", "n">>)
    /\ (out.op = "delete_note" /\ out.noteExists = "object" /\ "get" \in out.threw)
            => /\ BothDeletesIssued(out.calls, out.user, out.note_id)
               /\ out.noteTitle = Str(<<"U", "n", "k", "n", "o", "w", "n">>)

\* the get of the sidecar threw and the note was deleted all the same
C21_Witness ==
    /\ out.op = "delete_note"
    /\ out.success
    /\ "get" \in out.threw
    /\ out.noteTitle = UNKNOWN
    /\ Len(out.files_deleted) = 2

\* the sidecar was missing when the deletes were issued
C21_MissingSidecarCase ==
    \E s \in DOMAIN reqs :
        /\ reqs[s].pc = "deleting"
        /\ Cardinality(reqs[s].pending) = 2
        /\ MetadataPath(reqs[s].user, reqs[s].note_id) \notin DOMAIN store

\* C22 (SpecAuth): in a callback request, completeAuthorization is invoked
\* at most once; the token request is sent only for a state decoded to a
\* request with a clientId and a code that is present, the profile request
\* only after an OK token response, and completeAuthorization only after an
\* OK profile response that passes the domain check; the props of the grant
\* hold the email and the name of that profile and the token of that token
\* response.
C22_GrantOnlyAfterEveryCheck ==
    cb.pc # "idle" =>
        /\ cb.completions <= 1
        /\ cb.tokenRequests >= cb.profileRequests
        /\ cb.profileRequests >= cb.completions
        /\ cb.tokenRequests > 0 =>
                /\ cb.rawState # None /\ cb.rawState[1] # << >>
                /\ cb.oauthReqInfo # None
                /\ cb.oauthReqInfo[1].kind = "object"
                /\ cb.oauthReqInfo[1].clientId # None
                /\ cb.oauthReqInfo[1].clientId[1] # << >>
                /\ cb.code # None /\ cb.code[1] # << >>
        /\ cb.profileRequests > 0 =>
                /\ cb.tokenOutcome = "ok"
                /\ cb.accessToken = Some(TokenFor(cb.code[1]))
        /\ cb.completions > 0 =>
                /\ cb.profileOutcome = "ok"
                /\ cb.userInfo # None
                /\ ~(AllowlistConfigured
                        /\ (cb.userInfo[1].hd = None
                                \/ cb.userInfo[1].hd[1] # cb.hostedDomain[1]))
                /\ cb.grant # None
                /\ cb.grant[1].props.email = cb.userInfo[1].email
                /\ cb.grant[1].props.name = cb.userInfo[1].name
                /\ cb.grant[1].props.accessToken = TokenFor(cb.code[1])
                /\ cb.grant[1].request = cb.oauthReqInfo[1]
        /\ cb.completions = 0 => cb.grant = None

\* a grant was made for user b's profile under the second code, and the
\* client was sent back
C22_Witness ==
    /\ cb.pc = "done"
    /\ cb.completions = 1
    /\ cb.response[1].status = 302
    /\ cb.grant[1].props.email = USER_B
    /\ cb.grant[1].props.name = NAME_BO
    /\ cb.code = Some(Str(<<"4", "/", "1">>))

\* C23 (Spec): a delete_note that answers success has seen its head, and
\* both of its deletes, end without an error; and when it is the first
\* delete_note of a note that create_note had returned before it began (so
\* that no create_note of this id runs beside it), neither <user>/<id>.md
\* nor <user>/.metadata/<id>.json is in the store when it answers.
C23_SuccessMeansBothDeleted ==
    (out.op = "delete_note" /\ out.kind = "result" /\ out.success)
        => /\ out.threw \subseteq {"get"}
           /\ out.noteExists = "object"
           /\ out.afterCreate
                => /\ out.user \o Str(<<"/">>) \o out.note_id \o Str(<<".", "m", "d">>)
                        \notin DOMAIN store
                   /\ out.user \o Str(<<"/", ".", "m", "e", "t", "a", "d", "a", "t", "a", "/">>)
                        \o out.note_id \o Str(<<".", "j", "s", "o", "n">>)
                        \notin DOMAIN store

\* a returned note was deleted while another invocation was in flight
C23_Witness ==
    /\ out.op = "delete_note"
    /\ out.kind = "result"
    /\ out.success
    /\ out.afterCreate
    /\ \E s \in DOMAIN reqs : reqs[s].pc # "idle"

\* the sidecar of the id is stored, the note is not, and no delete_note of
\* the id that found the note before is still at work
Orphaned(user, id) ==
    /\ MetadataPath(user, id) \in DOMAIN store
    /\ NotePath(user, id) \notin DOMAIN store
    /\ \A s \in DOMAIN reqs :
        ~(/\ reqs[s].pc \in {"get", "deleting"}
          /\ reqs[s].user = user
          /\ reqs[s].note_id = id)

\* C24 (Spec): once the sidecar of an id is stored without its note, with
\* no earlier delete_note of the id still at work, it stays so whatever the
\* tools do; and a delete_note of the id answers without success, with
\* "Note not found" unless its head threw.
C24_OrphanedSidecarStays ==
    [][\A user \in Users, id \in NoteIds :
        Orphaned(user, id)
            => /\ MetadataPath(user, id) \in DOMAIN store'
               /\ NotePath(user, id) \notin DOMAIN store'
               /\ \A s \in DOMAIN reqs :
                    ~(/\ reqs'[s].pc \in {"get", "deleting"}
                      /\ reqs'[s].user = user
                      /\ reqs'[s].note_id = id)
               /\ (out'.op = "delete_note" /\ out'.user = user /\ out'.note_id = id)
                    => /\ ~out'.success
                       /\ out'.files_deleted = << >>
                       /\ out'.threw = {} => out'.error = "Note not found"]_vars

\* a delete_note that was not the first of its note has answered "Note not
\* found" for an id whose sidecar is stored without its note
C24_Witness ==
    /\ out.op = "delete_note"
    /\ ~out.afterCreate
    /\ out.error = "Note not found"
    /\ Orphaned(out.user, out.note_id)
    /\ <<out.user, out.note_id>> \notin returned

\* what holds of the store while a create_note runs and when it answers
CreateKeepsNoteFirst(noteKey, sidecarKey) ==
    /\ \A s \in DOMAIN reqs :
        /\ (reqs[s].pc = "put_note"
                /\ noteKey = NotePath(reqs[s].user, reqs[s].id)
                /\ sidecarKey = MetadataPath(reqs[s].user, reqs[s].id))
            => noteKey \notin DOMAIN store /\ sidecarKey \notin DOMAIN store
        /\ (reqs[s].pc = "put_sidecar"
                /\ noteKey = NotePath(reqs[s].user, reqs[s].id)
                /\ sidecarKey = MetadataPath(reqs[s].user, reqs[s].id))
            => noteKey \in DOMAIN store /\ sidecarKey \notin DOMAIN store
    /\ (out.op = "create_note"
            /\ noteKey = NotePath(out.user, out.id)
            /\ sidecarKey = MetadataPath(out.user, out.id))
        => /\ sidecarKey \in DOMAIN store => noteKey \in DOMAIN store
           /\ out.kind = "result" => sidecarKey \in DOMAIN store
           /\ out.kind = "fault" => sidecarKey \notin DOMAIN store

\* C25 (SpecNotes): a sidecar <user>/.metadata/<id>.json comes into the
\* store only by the create_note of that id, after its put of
\* <user>/<id>.md has succeeded and with that note stored; while a
\* create_note runs and when it answers, its sidecar is stored only if its
\* note is; and when the put of the note fails, the call ends with that one
\* put issued and the store as it was.
C25_CreateLeavesNoOrphan ==
    [][/\ \A user \in Users, id \in NoteIds :
            LET noteKey == user \o Str(<<"/">>) \o id \o Str(<<".", "m", "d">>)
                sidecarKey == user
                    \o Str(<<"/", ".", "m", "e", "t", "a", "d", "a", "t", "a", "/">>)
                    \o id \o Str(<<".", "j", "s", "o", "n">>)
            IN  /\ (sidecarKey \notin DOMAIN store /\ sidecarKey \in DOMAIN store')
                    => /\ \E s \in DOMAIN reqs :
                            /\ reqs[s].pc = "put_sidecar"
                            /\ reqs[s].user = user
                            /\ reqs[s].id = id
                            /\ reqs[s].calls[1] = Call("put", noteKey)
                       /\ noteKey \in DOMAIN store
                       /\ noteKey \in DOMAIN store'
                /\ CreateKeepsNoteFirst(noteKey, sidecarKey)'
       /\ \A s \in DOMAIN reqs :
            (reqs[s].pc = "put_note" /\ reqs'[s].pc \notin {"put_note", "put_sidecar"})
                => /\ out'.op = "create_note"
                   /\ out'.kind = "fault"
                   /\ Len(out'.calls) = 1
                   /\ store' = store]_vars

\* the sidecar's put has failed: the call ends in a fault with the note
\* stored and no sidecar
C25_Witness ==
    /\ out.op = "create_note"
    /\ out.kind = "fault"
    /\ Len(out.calls) = 2
    /\ NotePath(out.user, out.id) \in DOMAIN store
    /\ MetadataPath(out.user, out.id) \notin DOMAIN store

====
